---- MODULE Spec2Model ----
(***************************************************************************)
(* Kusanagi: the InsertionTracker (range rebasing of pending insertions)   *)
(* and the request lifecycle of handlePromptCommand around it.             *)
(*                                                                         *)
(* Specifications:                                                         *)
(*   RebaseSpec   shiftRange as a pure function of (range, change)         *)
(*   TrackerSpec  the InsertionTracker driven through its public methods   *)
(*   DocSpec      one tracked range against the text of a live document    *)
(*   OpsSpec      the tracker under single operations                      *)
(*   ProviderSpec runs of a provider and their abort signals               *)
(*   BlockSpec    getEnclosingBlock as a pure function                     *)
(*   SlashSpec    parseSlashCommand as a pure function                     *)
(*   PairSpec     two pending edits with disjoint ranges, applied in       *)
(*                either order to the text of one document                 *)
(*   Spec         handlePromptCommand, the providers, deactivate and the   *)
(*                tracker, interleaved on the extension host's event loop  *)
(*   LiveSpec     Spec with every started process and edit completing      *)
(***************************************************************************)
EXTENDS Integers, Sequences, FiniteSets, TLC

(***************************************************************************)
(* Bounds of the model.                                                    *)
(***************************************************************************)
MaxLine == 3
MaxCol == 2
MaxEvents == 2
MaxTracks == 2
MaxEdits == 2
MaxDocLen == 7
MaxReq == 2
MaxHostEvents == 1
MaxOps == 4

(***************************************************************************)
(* Text: a string is a sequence of one-character strings.                  *)
(***************************************************************************)
NL == "\n"

Max(a, b) == IF a >= b THEN a ELSE b

Min(a, b) == IF a <= b THEN a ELSE b

\* String.prototype.split("\n"): the pieces between the newlines; always
\* at least one piece.
RECURSIVE splitFrom(_, _, _, _)
splitFrom(text, i, cur, acc) ==
  IF i > Len(text) THEN Append(acc, cur)
  ELSE IF text[i] = NL THEN splitFrom(text, i + 1, <<>>, Append(acc, cur))
  ELSE splitFrom(text, i + 1, Append(cur, text[i]), acc)

split(text) == splitFrom(text, 1, <<>>, <<>>)

(***************************************************************************)
(* vscode.Position and vscode.Range as the tracker uses them.              *)
(***************************************************************************)
Position(line, character) == [line |-> line, character |-> character]

translate(pos, lineDelta, characterDelta) ==
  Position(pos.line + lineDelta, pos.character + characterDelta)

Range(start, end) == [start |-> start, end |-> end]

isBefore(p, q) ==
  p.line < q.line \/ (p.line = q.line /\ p.character < q.character)

isBeforeOrEqual(p, q) == isBefore(p, q) \/ p = q

(***************************************************************************)
(* A text document as the sequence of its lines (createMockDocument).      *)
(***************************************************************************)
RECURSIVE join(_)
join(lines) ==
  IF Len(lines) = 1 THEN lines[1]
  ELSE lines[1] \o <<NL>> \o join(Tail(lines))

RECURSIVE offsetOfLine(_, _)
offsetOfLine(lines, n) ==
  IF n = 0 THEN 0 ELSE offsetOfLine(lines, n - 1) + Len(lines[n]) + 1

offsetAt(lines, pos) ==
  offsetOfLine(lines, Min(pos.line, Len(lines)))
    + Min(pos.character,
          IF pos.line < Len(lines) THEN Len(lines[pos.line + 1]) ELSE 0)

getText(lines, range) ==
  SubSeq(join(lines), offsetAt(lines, range.start) + 1, offsetAt(lines, range.end))

\* the position exists in the document
validPosition(lines, pos) ==
  /\ pos.line >= 0
  /\ pos.line < Len(lines)
  /\ pos.character >= 0
  /\ pos.character <= Len(lines[pos.line + 1])

validRange(lines, range) ==
  /\ validPosition(lines, range.start)
  /\ validPosition(lines, range.end)
  /\ isBeforeOrEqual(range.start, range.end)

\* the document after the host has replaced change.range by change.text
applyChange(lines, change) ==
  LET content == join(lines)
  IN  split(SubSeq(content, 1, offsetAt(lines, change.range.start))
              \o change.text
              \o SubSeq(content, offsetAt(lines, change.range.end) + 1, Len(content)))

\* A vscode.TextDocumentContentChangeEvent: the replaced range and the
\* text that replaces it.
ContentChange(range, text) == [range |-> range, text |-> text]

(***************************************************************************)
(* InsertionTracker.shiftRange, one operator per branch.                   *)
(***************************************************************************)
\* lineDelta = addedLineCount - removedLineCount
lineDeltaOf(change) ==
  (Len(split(change.text)) - 1) - (change.range.end.line - change.range.start.line)

\* length of the last line of the inserted text
lastNewLineLength(change) ==
  LET newLines == split(change.text) IN Len(newLines[Len(newLines)])

\* mutant of changeIsAfter: a change starting exactly at the range's end
\* is not taken as after it
changeIsAfterStrict(range, change) ==
  \/ change.range.start.line > range.end.line
  \/ /\ change.range.start.line = range.end.line
     /\ change.range.start.character > range.end.character

\* "the change is entirely after our range"
changeIsAfter(range, change) ==
  \/ change.range.start.line > range.end.line
  \/ /\ change.range.start.line = range.end.line
     /\ change.range.start.character >= range.end.character

\* mutant of changeIsBefore: a change ending on the range's start line is
\* taken as before it
changeIsBeforeOrOnStartLine(range, change) ==
  change.range.end.line <= range.start.line

\* "the change is entirely before our range start line"
changeIsBefore(range, change) ==
  change.range.end.line < range.start.line

\* "the change ends on the same line as our range starts"
changeAbutsStart(range, change) ==
  /\ change.range.end.line = range.start.line
  /\ change.range.end.character <= range.start.character

\* mutant of shiftLines: only the added lines are counted
shiftLinesAddedOnly(range, change) ==
  LET addedLineCount == Len(split(change.text)) - 1
  IN  Range(translate(range.start, addedLineCount, 0),
            translate(range.end, addedLineCount, 0))

shiftLines(range, change) ==
  Range(translate(range.start, lineDeltaOf(change), 0),
        translate(range.end, lineDeltaOf(change), 0))

\* mutant of shiftSameLine: the end column of a single-line range is not moved
shiftSameLineKeepEnd(range, change) ==
  LET addedLineCount == Len(split(change.text)) - 1
      charDelta == lastNewLineLength(change)
                     - (change.range.end.character - change.range.start.character)
      newStartChar ==
        IF addedLineCount = 0
        THEN range.start.character + charDelta
        ELSE range.start.character - change.range.end.character
               + lastNewLineLength(change)
  IN  Range(Position(range.start.line + lineDeltaOf(change), newStartChar),
            Position(range.end.line + lineDeltaOf(change), range.end.character))

shiftSameLine(range, change) ==
  LET changeStart == change.range.start
      changeEnd == change.range.end
      addedLineCount == Len(split(change.text)) - 1
      charDelta == lastNewLineLength(change)
                     - (changeEnd.character - changeStart.character)
      newStartChar ==
        IF addedLineCount = 0
        THEN range.start.character + charDelta
        ELSE range.start.character - changeEnd.character + lastNewLineLength(change)
      newEndChar ==
        IF addedLineCount = 0
        THEN IF range.start.line = range.end.line
             THEN range.end.character + charDelta
             ELSE range.end.character
        ELSE IF range.start.line = range.end.line
             THEN range.end.character - changeEnd.character + lastNewLineLength(change)
             ELSE range.end.character
  IN  Range(Position(range.start.line + lineDeltaOf(change), newStartChar),
            Position(range.end.line + lineDeltaOf(change), newEndChar))

\* mutant of shiftOverlap: the range collapses to its start
shiftOverlapCollapsed(range, change) ==
  Range(Position(Max(0, range.start.line + lineDeltaOf(change)), range.start.character),
        Position(Max(0, range.start.line + lineDeltaOf(change)), range.start.character))

\* mutant of shiftOverlap: the lines are not clamped at 0
shiftOverlapUnclamped(range, change) ==
  Range(Position(range.start.line + lineDeltaOf(change), range.start.character),
        Position(range.end.line + lineDeltaOf(change), range.end.character))

\* "the change overlaps with our range: keep the range as-is"
shiftOverlap(range, change) ==
  Range(Position(Max(0, range.start.line + lineDeltaOf(change)), range.start.character),
        Position(Max(0, range.end.line + lineDeltaOf(change)), range.end.character))

shiftRange(range, change) ==
  IF changeIsAfter(range, change) THEN range
  ELSE IF changeIsBefore(range, change) THEN shiftLines(range, change)
  ELSE IF changeAbutsStart(range, change) THEN shiftSameLine(range, change)
  ELSE shiftOverlap(range, change)

(***************************************************************************)
(* InsertionTracker: the pending map and its methods.  pending is a        *)
(* function from the tracked ids to PendingInsertion records.              *)
(***************************************************************************)
PendingInsertion(id, uri, range) == [id |-> id, uri |-> uri, range |-> range]

\* Map.prototype.set
track(pend, id, uri, range) ==
  [i \in (DOMAIN pend) \cup {id} |->
     IF i = id THEN PendingInsertion(id, uri, range) ELSE pend[i]]

\* mutant of remove: the entry stays
removeKeeps(pend, id) == pend

\* mutant of remove: the map is cleared
removeClears(pend, id) == [i \in {} |-> pend[i]]

\* Map.prototype.delete
remove(pend, id) == [i \in (DOMAIN pend) \ {id} |-> pend[i]]

activeCount(pend) == Cardinality(DOMAIN pend)

\* mutant of applyChanges: the changes of an event are applied last to first
RECURSIVE applyChangesReversed(_, _)
applyChangesReversed(range, contentChanges) ==
  IF contentChanges = <<>> THEN range
  ELSE shiftRange(applyChangesReversed(range, Tail(contentChanges)),
                  Head(contentChanges))

\* the inner loop of adjustForChanges:
\*   for (const change of e.contentChanges) entry.range = shiftRange(entry.range, change)
RECURSIVE applyChanges(_, _)
applyChanges(range, contentChanges) ==
  IF contentChanges = <<>> THEN range
  ELSE applyChanges(shiftRange(range, Head(contentChanges)), Tail(contentChanges))

\* a vscode.TextDocumentChangeEvent
ChangeEvent(uri, contentChanges) == [uri |-> uri, contentChanges |-> contentChanges]

\* mutant of adjustForChanges: the entries of every document are rebased
adjustForChangesAllDocs(pend, e) ==
  [i \in DOMAIN pend |->
     [pend[i] EXCEPT !.range = applyChanges(@, e.contentChanges)]]

\* mutant of adjustForChanges: an entry whose range a change does not leave
\* in place or shift as a whole is dropped
adjustForChangesDropOverlapped(pend, e) ==
  LET kept == { i \in DOMAIN pend :
                  \/ pend[i].uri # e.uri
                  \/ \A n \in 1..Len(e.contentChanges) :
                       \/ changeIsAfter(pend[i].range, e.contentChanges[n])
                       \/ changeIsBefore(pend[i].range, e.contentChanges[n])
                       \/ changeAbutsStart(pend[i].range, e.contentChanges[n]) }
  IN  [i \in kept |->
         IF pend[i].uri # e.uri THEN pend[i]
         ELSE [pend[i] EXCEPT !.range = applyChanges(@, e.contentChanges)]]

\* mutant of adjustForChanges: an entry is rebased only while no other entry
\* of the changed document is tracked
adjustForChangesAlone(pend, e) ==
  [i \in DOMAIN pend |->
     IF pend[i].uri # e.uri
          \/ \E j \in (DOMAIN pend) \ {i} : pend[j].uri = e.uri
       THEN pend[i]
       ELSE [pend[i] EXCEPT !.range = applyChanges(@, e.contentChanges)]]

\* mutant of adjustForChanges: the document test is inverted, so the
\* entries of the changed document keep the range they had
adjustForChangesOtherDocs(pend, e) ==
  [i \in DOMAIN pend |->
     IF pend[i].uri = e.uri THEN pend[i]
     ELSE [pend[i] EXCEPT !.range = applyChanges(@, e.contentChanges)]]

adjustForChanges(pend, e) ==
  [i \in DOMAIN pend |->
     IF pend[i].uri # e.uri THEN pend[i]
     ELSE [pend[i] EXCEPT !.range = applyChanges(@, e.contentChanges)]]

\* mutant of applyLookup: the visible editors are not consulted
applyLookupDocOnly(entry, docs, editors) ==
  IF entry.uri \notin docs THEN "nodoc" ELSE "edit"

\* applyResult up to the await: what it finds for the entry
\*   "nodoc"    the document is not among workspace.textDocuments
\*   "noeditor" no visible editor shows the document
\*   "edit"     editor.edit is called with entry.range
applyLookup(entry, docs, editors) ==
  IF entry.uri \notin docs THEN "nodoc"
  ELSE IF entry.uri \notin editors THEN "noeditor"
  ELSE "edit"

\* applyResult after the await of editor.edit: a value (true or false) is
\* followed by pending.delete(id); an exception leaves the function before it
applySettled(pend, id, outcome) ==
  IF outcome = "threw" THEN pend ELSE remove(pend, id)

\* what the promise of applyResult settles with, given how the call ended:
\* `return false` on the three early exits, `return success` after the
\* write, the exception of editor.edit, "" while it has not settled
applyReturns(ended) ==
  CASE ended \in {"notfound", "nodoc", "noeditor", "false"} -> "false"
    [] ended = "true" -> "true"
    [] ended = "threw" -> "threw"
    [] OTHER -> ""

(***************************************************************************)
(* The providers (claude.ts, opencode.ts): the promise returned by run is  *)
(* "pending" until it is resolved with text ("text"), with empty text      *)
(* ("blank"), as cancelled ("cancelled"), or rejected ("rejected").        *)
(***************************************************************************)
\* a promise settles once: later resolve and reject calls do nothing
settle(runState, outcome) ==
  IF runState = "pending" /\ outcome # "none" THEN outcome ELSE runState

\* mutant of runStart: the signal is not looked at when run is called
runStartIgnoresSignal(isAborted) == "pending"

\* the promise when run returns: resolved as cancelled at once if the signal
\* is aborted already
runStart(isAborted) == IF isAborted THEN "cancelled" ELSE "pending"

\* mutant of onAbort: the process is killed but the promise is not resolved
onAbortKillOnly(runState) == runState

\* onAbort: proc.kill("SIGTERM"); resolve({ text: "", cancelled: true })
onAbort(runState) == settle(runState, "cancelled")

\* the 'close' handler: what it settles the promise with, "none" when it
\* returns without settling.  exit is how the process ended: "ok" (code 0,
\* output with text), "blank" (code 0, no text), "failed" (code not 0),
\* "killed" (by SIGTERM)
closeHandler(provider, exit, isAborted) ==
  IF isAborted THEN "none"
  ELSE IF exit \in {"failed", "killed"} THEN "rejected"
  ELSE IF exit = "blank"
       THEN IF provider = "opencode" THEN "rejected" ELSE "blank"
  ELSE "text"

(***************************************************************************)
(* handlePromptCommand after `await currentProvider.run(...)`.             *)
(***************************************************************************)
\* mutant of cancelledBranch: the request returns without tracker.remove
cancelledBranchNoRemove(pend, id) == pend

\* if (result.cancelled) { tracker.remove(requestId); return; }
cancelledBranch(pend, id) == remove(pend, id)

\* if (!result.text.trim()) { tracker.remove(requestId); ... return; }
emptyBranch(pend, id) == remove(pend, id)

\* mutant of catchBlock: the catch does not remove the request
catchBlockNoRemove(pend, id) == pend

\* catch (err) { tracker.remove(requestId); ... }
catchBlock(pend, id) == remove(pend, id)

\* mutant of afterRun: an empty result goes on to applyResult
afterRunAppliesBlank(result) ==
  CASE result = "cancelled" -> "Cancelled"
    [] result = "rejected" -> "BackendError"
    [] OTHER -> "apply"

\* where the request goes once run has settled with result
afterRun(result) ==
  CASE result = "cancelled" -> "Cancelled"
    [] result = "blank" -> "EmptyResult"
    [] result = "rejected" -> "BackendError"
    [] OTHER -> "apply"

\* the tracker's map when the request leaves through result's branch
afterRunPending(pend, id, result) ==
  CASE result = "cancelled" -> cancelledBranch(pend, id)
    [] result = "blank" -> emptyBranch(pend, id)
    [] result = "rejected" -> catchBlock(pend, id)
    [] OTHER -> pend

(***************************************************************************)
(* Input domains.                                                          *)
(***************************************************************************)
Positions == { Position(l, c) : l \in 0..MaxLine, c \in 0..MaxCol }

Ranges == { Range(s, e) : s \in Positions, e \in Positions } \ 
          { r \in { Range(s, e) : s \in Positions, e \in Positions } :
              isBefore(r.end, r.start) }

Texts == { <<>>, <<"x">>, <<"x", "y">>, <<NL>>, <<"x", NL>>, <<NL, "x">>,
           <<"x", NL, "y", NL>> }

Changes == { ContentChange(r, t) : r \in Ranges, t \in Texts }

\* inserted text "line1\nline2\n" of the test "change before range shifts lines"
TwoLines == <<"l", "i", "n", "e", "1", NL, "l", "i", "n", "e", "2", NL>>

ScenarioRange == Range(Position(10, 0), Position(12, 5))

ScenarioChange == ContentChange(Range(Position(2, 0), Position(2, 0)), TwoLines)

(***************************************************************************)
(* Inputs of the tracker specifications: two documents, two request ids,   *)
(* two tracked ranges and change lists that reach every branch of          *)
(* shiftRange for them.                                                    *)
(***************************************************************************)
DocA == "file:///a.ts"

DocB == "file:///b.ts"

Uris == {DocA, DocB}

\* mutant of reqId: the counter is not part of the id
reqIdFixed(n) == <<"req-", 1>>

\* `req-${n}`
reqId(n) == <<"req-", n>>

Ids == {reqId(1), reqId(2)}

SingleLine == Range(Position(1, 1), Position(1, 2))

MultiLine == Range(Position(2, 0), Position(3, 1))

TrackRanges == {SingleLine, MultiLine}

InsertLineAtTop ==
  ContentChange(Range(Position(0, 0), Position(0, 0)), <<"x", NL>>)

DeleteCharBefore ==
  ContentChange(Range(Position(1, 0), Position(1, 1)), <<>>)

JoinLines ==
  ContentChange(Range(Position(0, 1), Position(1, 1)), <<"x", "y">>)

InsertAfter ==
  ContentChange(Range(Position(3, 2), Position(3, 2)), <<NL>>)

Overlapping ==
  ContentChange(Range(Position(1, 1), Position(2, 1)), <<"x">>)

ChangeLists ==
  { <<Overlapping>>, <<InsertLineAtTop, DeleteCharBefore>>,
    <<DeleteCharBefore, InsertLineAtTop>>, <<JoinLines, InsertAfter>> }

Events ==
  { ChangeEvent(DocA, cs) : cs \in ChangeLists }
    \cup { ChangeEvent(DocB, <<InsertLineAtTop>>) }

ResultTexts == { <<"r", NL, "s">> }

\* what applyResult can find in workspace.textDocuments and
\* window.visibleTextEditors: an editor shows an open document
Workspaces ==
  { w \in [docs : SUBSET Uris, editors : SUBSET Uris] : w.editors \subseteq w.docs }

EmptyMap == [i \in {} |-> i]

\* DocSpec: the document the range is tracked in, every character its own
OrigDoc == << <<"a", "b">>, <<"c", "d">> >>

DocTexts == { <<>>, <<"x">>, <<NL>>, <<NL, "x">> }

positionsOf(lines) ==
  UNION { { Position(l - 1, c) : c \in 0..Len(lines[l]) } : l \in 1..Len(lines) }

rangesOf(lines) ==
  { r \in [start : positionsOf(lines), end : positionsOf(lines)] :
      isBeforeOrEqual(r.start, r.end) }

VARIABLES
  rbRange,      \* RebaseSpec: the range given to shiftRange
  rbChange,     \* RebaseSpec: the content change given to shiftRange
  rbResult,     \* RebaseSpec: <<the range shiftRange returned>>, <<>> before the call
  pending,      \* InsertionTracker.pending
  call,         \* per id, how far its applyResult call is and how it ended
  wrote,        \* per id, <<the range and text handed to editBuilder.replace,
                \* and the value of folded at that moment>>
  r0,           \* per id, <<the range given to the last track>>
  folded,       \* per id, <<that range folded through shiftRange over every
                \* content change its document got since, in delivery order>>
  tracks,       \* per id, how many times track was called with it
  nEvents,      \* how many change events the host has fired
  doc,          \* DocSpec: the lines of the document now
  orig,         \* DocSpec: the lines of the document when the range was tracked
  requestCounter,    \* extension.ts: let requestCounter
  activeRequests,    \* extension.ts: let activeRequests
  abortControllers,  \* extension.ts: the keys of the abortControllers map
  currentProvider,   \* extension.ts: the id of currentProvider
  pc,           \* per invocation of handlePromptCommand, where it stands
  rid,          \* per invocation, <<its requestId>> once it has one
  ctx,          \* per invocation, <<the document and range it captured>>
  aborted,      \* per invocation, signal.aborted of its AbortController
  proc,         \* per invocation, the state of the spawned child process
  run,          \* per invocation, the state of the promise of provider.run
  listening,    \* per invocation, whether onAbort is registered on the signal
  issued,       \* per invocation, <<the range and text of the write it issued>>
  applied,      \* per invocation, how its applyResult call ended
  cancelWhile,  \* per invocation, the state of the child process when the
                \* signal was asserted during the backend call, "" if it was not
  deactivated,  \* whether the host has called deactivate()
  before,       \* OpsSpec: InsertionTracker.pending before the last operation
  last,         \* OpsSpec: <<the last operation on the tracker>>
  nOps,         \* OpsSpec: how many operations the tracker has had
  runAtAbort,   \* ProviderSpec: per run, the state of its promise when its
                \* signal was aborted, "" while the signal is not aborted
  input,        \* BlockSpec, SlashSpec: <<the arguments of the function>>
  output        \* BlockSpec, SlashSpec: <<what the function returned>>,
                \* <<>> before the call

rbVars == <<rbRange, rbChange, rbResult>>

trackerVars == <<pending, call, wrote, r0, folded, tracks, nEvents>>

docVars == <<doc, orig>>

coordVars ==
  <<requestCounter, activeRequests, abortControllers, currentProvider, pc, rid,
    ctx, aborted, proc, run, listening, issued, applied, cancelWhile,
    deactivated>>

vars ==
  <<rbRange, rbChange, rbResult, pending, call, wrote, r0, folded, tracks,
    nEvents, doc, orig, requestCounter, activeRequests, abortControllers,
    currentProvider, pc, rid, ctx, aborted, proc, run, listening, issued,
    applied, cancelWhile, deactivated, before, last, nOps, runAtAbort,
    input, output>>

fnVars == <<input, output>>

opVars == <<before, last, nOps, runAtAbort>>

histVars == <<before, last, nOps, runAtAbort, input, output>>

Slots == 1..MaxReq

Providers == {"claude", "opencode"}

\* the extension after activate(), with no command invoked yet
CoordStart ==
  /\ requestCounter = 0
  /\ activeRequests = 0
  /\ abortControllers = {}
  /\ deactivated = FALSE
  /\ pc = [s \in Slots |-> "Idle"]
  /\ rid = [s \in Slots |-> <<>>]
  /\ ctx = [s \in Slots |-> <<>>]
  /\ aborted = [s \in Slots |-> FALSE]
  /\ proc = [s \in Slots |-> "none"]
  /\ run = [s \in Slots |-> "none"]
  /\ listening = [s \in Slots |-> FALSE]
  /\ issued = [s \in Slots |-> <<>>]
  /\ applied = [s \in Slots |-> "none"]
  /\ cancelWhile = [s \in Slots |-> ""]

\* the variables of Spec, parked
CoordFresh == CoordStart /\ currentProvider = "claude"

\* the variables of OpsSpec and the history of ProviderSpec, parked
FnIdle == input = <<>> /\ output = <<>>

OpIdle ==
  /\ before = EmptyMap
  /\ last = <<>>
  /\ nOps = 0
  /\ runAtAbort = [s \in Slots |-> ""]

HistIdle == OpIdle /\ FnIdle

\* the variables of DocSpec, parked
DocIdle == doc = <<>> /\ orig = <<>>

\* the variables of RebaseSpec, parked
RebaseIdle ==
  /\ rbRange = ScenarioRange
  /\ rbChange = ScenarioChange
  /\ rbResult = <<>>

\* a fresh tracker
TrackerFresh ==
  /\ pending = EmptyMap
  /\ call = [i \in Ids |-> "none"]
  /\ wrote = [i \in Ids |-> <<>>]
  /\ r0 = [i \in Ids |-> <<>>]
  /\ folded = [i \in Ids |-> <<>>]
  /\ tracks = [i \in Ids |-> 0]
  /\ nEvents = 0

(***************************************************************************)
(* RebaseSpec: shiftRange applied to every range and change of the         *)
(* bounded domains, and to the scenario of the tracker's test.             *)
(***************************************************************************)
RebaseInit ==
  /\ \/ rbRange \in Ranges /\ rbChange \in Changes
     \/ rbRange = ScenarioRange /\ rbChange = ScenarioChange
  /\ rbResult = <<>>
  /\ TrackerFresh
  /\ DocIdle
  /\ CoordFresh
  /\ HistIdle

Rebase ==
  /\ rbResult = <<>>
  /\ rbResult' = <<shiftRange(rbRange, rbChange)>>
  /\ UNCHANGED <<rbRange, rbChange>>
  /\ UNCHANGED <<trackerVars, docVars, coordVars, histVars>>

RebaseNext == Rebase

RebaseSpec == RebaseInit /\ [][RebaseNext]_vars

(***************************************************************************)
(* TrackerSpec: a client calls track, remove and applyResult with ids of   *)
(* its choice while the host fires change events and settles the writes.   *)
(* The open documents and visible editors are read by applyResult only, so *)
(* they are an input of that call.  The client uses the ids in order and   *)
(* does not track an id again once applyResult has been called with it.    *)
(***************************************************************************)
TrackerInit == RebaseIdle /\ TrackerFresh /\ DocIdle /\ CoordFresh /\ HistIdle

\* rebase(...rebase(rebase(R, c1), c2)..., cn)
RECURSIVE Rebased(_, _)
Rebased(range, changes) ==
  IF changes = <<>> THEN range
  ELSE shiftRange(Rebased(range, SubSeq(changes, 1, Len(changes) - 1)),
                  changes[Len(changes)])

\* the host fires onDidChangeTextDocument: the tracker's listener runs
\* adjustForChanges; the history of every entry on that document grows
Deliver(pend, e) ==
  /\ pending' = adjustForChanges(pend, e)
  /\ folded' =
       [i \in Ids |->
          IF i \in DOMAIN pend /\ pend[i].uri = e.uri
          THEN <<Rebased(folded[i][1], e.contentChanges)>>
          ELSE folded[i]]

Track(id, uri, range) ==
  /\ call[id] = "none"
  /\ tracks[reqId(1)] + tracks[reqId(2)] < MaxTracks
  /\ \A n \in 1..2 : (id = reqId(n) /\ n > 1) => tracks[reqId(n - 1)] > 0
  /\ pending' = track(pending, id, uri, range)
  /\ r0' = [r0 EXCEPT ![id] = <<range>>]
  /\ folded' = [folded EXCEPT ![id] = <<range>>]
  /\ tracks' = [tracks EXCEPT ![id] = @ + 1]
  /\ UNCHANGED <<call, wrote, nEvents>>
  /\ UNCHANGED <<rbVars, docVars, coordVars, histVars>>

Remove(id) ==
  /\ call[id] = "none"
  /\ tracks[id] > 0
  /\ pending' = remove(pending, id)
  /\ UNCHANGED <<call, wrote, r0, folded, tracks, nEvents>>
  /\ UNCHANGED <<rbVars, docVars, coordVars, histVars>>

OnMutation(e) ==
  /\ nEvents < MaxEvents
  /\ nEvents' = nEvents + 1
  /\ Deliver(pending, e)
  /\ UNCHANGED <<call, wrote, r0, tracks>>
  /\ UNCHANGED <<rbVars, docVars, coordVars, histVars>>

\* applyResult(id, text) up to its await
ApplyBegin(id, text, ws) ==
  /\ call[id] = "none"
  /\ tracks[id] > 0
  /\ IF id \notin DOMAIN pending
     THEN /\ call' = [call EXCEPT ![id] = "notfound"]
          /\ UNCHANGED <<pending, wrote>>
     ELSE LET found == applyLookup(pending[id], ws.docs, ws.editors)
          IN  IF found = "edit"
              THEN /\ call' = [call EXCEPT ![id] = "writing"]
                   /\ wrote' = [wrote EXCEPT ![id] =
                                  <<[range |-> pending[id].range, text |-> text,
                                     folded |-> folded[id][1]]>>]
                   /\ UNCHANGED pending
              ELSE /\ call' = [call EXCEPT ![id] = found]
                   /\ pending' = remove(pending, id)
                   /\ UNCHANGED wrote
  /\ UNCHANGED <<r0, folded, tracks, nEvents>>
  /\ UNCHANGED <<rbVars, docVars, coordVars, histVars>>

\* editor.edit settles: with true the document has changed and its change
\* event has reached the listener; then applyResult resumes
ApplyEnd(id, outcome) ==
  /\ call[id] = "writing"
  /\ call' = [call EXCEPT ![id] = outcome]
  /\ IF outcome = "true" /\ id \in DOMAIN pending
     THEN LET e == ChangeEvent(pending[id].uri,
                               <<ContentChange(wrote[id][1].range, wrote[id][1].text)>>)
          IN  /\ pending' = applySettled(adjustForChanges(pending, e), id, outcome)
              /\ folded' =
                   [i \in Ids |->
                      IF i # id /\ i \in DOMAIN pending /\ pending[i].uri = e.uri
                      THEN <<Rebased(folded[i][1], e.contentChanges)>>
                      ELSE folded[i]]
     ELSE /\ pending' = applySettled(pending, id, outcome)
          /\ UNCHANGED folded
  /\ UNCHANGED <<wrote, r0, tracks, nEvents>>
  /\ UNCHANGED <<rbVars, docVars, coordVars, histVars>>

TrackerNext ==
  \/ \E id \in Ids, uri \in Uris, range \in TrackRanges : Track(id, uri, range)
  \/ \E id \in Ids : Remove(id)
  \/ \E e \in Events : OnMutation(e)
  \/ \E id \in Ids, text \in ResultTexts, ws \in Workspaces : ApplyBegin(id, text, ws)
  \/ \E id \in Ids, outcome \in {"true", "false", "threw"} : ApplyEnd(id, outcome)

TrackerSpec == TrackerInit /\ [][TrackerNext]_vars

\* the change lies entirely after the range: it starts at or after the
\* range's end in document order
EntirelyAfter(range, change) == ~isBefore(change.range.start, range.end)

\* C8: rebasing a range against a change lying entirely after it returns
\* the range unchanged, whatever the change replaces or inserts.
C8_AfterUnchanged ==
  (rbResult # <<>> /\ EntirelyAfter(rbRange, rbChange)) => rbResult[1] = rbRange

\* a change after the range that changes the line count has been rebased
C8_Witness ==
  /\ rbResult # <<>>
  /\ EntirelyAfter(rbRange, rbChange)
  /\ lineDeltaOf(rbChange) # 0
  /\ rbChange.range.start = rbRange.end
  /\ rbRange.start # rbRange.end

\* C9: a change ending on a line strictly before the range's start line
\* moves both the start line and the end line by lineDelta = (newlines in
\* the inserted text) - (lines the replaced range spans) and keeps both
\* columns; (10,0)-(12,5) after two lines inserted at (2,0) is (12,0)-(14,5).
C9_BeforeShiftsLines ==
  /\ (rbResult # <<>> /\ rbChange.range.end.line < rbRange.start.line) =>
       /\ rbResult[1].start.line = rbRange.start.line + lineDeltaOf(rbChange)
       /\ rbResult[1].end.line = rbRange.end.line + lineDeltaOf(rbChange)
       /\ rbResult[1].start.character = rbRange.start.character
       /\ rbResult[1].end.character = rbRange.end.character
  /\ (rbResult # <<>> /\ rbRange = ScenarioRange /\ rbChange = ScenarioChange) =>
       rbResult[1] = Range(Position(12, 0), Position(14, 5))

\* a change that removes lines above the range has been rebased
C9_Witness ==
  /\ rbResult # <<>>
  /\ rbChange.range.end.line < rbRange.start.line
  /\ rbChange.range.end.line > rbChange.range.start.line
  /\ lineDeltaOf(rbChange) < 0
  /\ rbResult[1] # rbRange

\* a change that replaces nothing with nothing
emptyEffect(change) ==
  change.range.start = change.range.end /\ change.text = <<>>

\* C13: rebasing a range against an empty-effect change (an empty replaced
\* range at any position, empty inserted text) returns a range equal to
\* the original, in every branch of shiftRange.
C13_EmptyEffectKeepsRange ==
  (rbResult # <<>> /\ emptyEffect(rbChange)) => rbResult[1] = rbRange

\* an empty-effect change inside a range of several lines went through the
\* overlapping branch
C13_Witness ==
  /\ rbResult # <<>>
  /\ emptyEffect(rbChange)
  /\ ~changeIsAfter(rbRange, rbChange)
  /\ ~changeIsBefore(rbRange, rbChange)
  /\ ~changeAbutsStart(rbRange, rbChange)
  /\ rbRange.start.line < rbRange.end.line
  /\ rbResult[1] = rbRange

\* an empty-effect change on the start line of a range, before it, went
\* through the same-line branch
C13_SameLineReached ==
  /\ rbResult # <<>>
  /\ emptyEffect(rbChange)
  /\ changeAbutsStart(rbRange, rbChange)
  /\ ~changeIsAfter(rbRange, rbChange)
  /\ rbChange.range.start.character < rbRange.start.character

\* the change and the range share text: the change starts before the range
\* ends and ends after the range starts
intersects(range, change) ==
  /\ isBefore(change.range.start, range.end)
  /\ isBefore(range.start, change.range.end)

C39_StartAtEndUnchanged ==
  (rbResult # <<>> /\ rbChange.range.start = rbRange.end) => rbResult[1] = rbRange

\* text with a newline inserted at the position of an empty range that is
\* not at the start of its line
C39_Witness ==
  /\ rbResult # <<>>
  /\ rbChange.range.start = rbRange.end
  /\ rbChange.range.end = rbChange.range.start
  /\ rbRange.start = rbRange.end
  /\ rbRange.start.character > 0
  /\ lineDeltaOf(rbChange) > 0
  /\ rbResult[1] = rbRange

(***************************************************************************)
(* DocSpec: one range tracked in a document whose text is modelled.  The   *)
(* host edits the document outside the tracked range and fires one change  *)
(* event per edit, in order; the listener rebases the range.               *)
(***************************************************************************)
DocId == reqId(1)

\* the change does not overlap the range: it ends at or before the range's
\* start, or starts at or after the range's end
outsideOf(range, change) ==
  \/ isBeforeOrEqual(change.range.end, range.start)
  \/ isBeforeOrEqual(range.end, change.range.start)

DocInit ==
  /\ RebaseIdle
  /\ CoordFresh
  /\ HistIdle
  /\ orig = OrigDoc
  /\ doc = OrigDoc
  /\ \E range \in rangesOf(OrigDoc) :
       /\ pending = track(EmptyMap, DocId, DocA, range)
       /\ r0 = [i \in Ids |-> IF i = DocId THEN <<range>> ELSE <<>>]
       /\ folded = [i \in Ids |-> IF i = DocId THEN <<range>> ELSE <<>>]
  /\ call = [i \in Ids |-> "none"]
  /\ wrote = [i \in Ids |-> <<>>]
  /\ tracks = [i \in Ids |-> IF i = DocId THEN 1 ELSE 0]
  /\ nEvents = 0

EditOutside(change) ==
  /\ nEvents < MaxEdits
  /\ outsideOf(pending[DocId].range, change)
  /\ LET edited == applyChange(doc, change)
     IN  /\ Len(join(edited)) <= MaxDocLen
         /\ doc' = edited
  /\ nEvents' = nEvents + 1
  /\ Deliver(pending, ChangeEvent(DocA, <<change>>))
  /\ UNCHANGED <<call, wrote, r0, tracks, orig>>
  /\ UNCHANGED <<rbVars, coordVars, histVars>>

DocNext ==
  \E range \in rangesOf(doc), text \in DocTexts :
    EditOutside(ContentChange(range, text))

DocSpec == DocInit /\ [][DocNext]_vars

\* C7: while every change delivered lies outside the tracked range (before
\* its start, abutting its start, or at or after its end), the stored
\* range denotes in the current document the text that the tracked range
\* denoted in the original document.
C7_RangeFollowsText ==
  /\ validRange(doc, pending[DocId].range)
  /\ getText(doc, pending[DocId].range) = getText(orig, r0[DocId][1])

\* two edits, the second a line break inserted on the range's start line
\* before it, have moved a non-empty single-line range to another line
\* and column
C7_Witness ==
  /\ nEvents = 2
  /\ r0[DocId][1].start # r0[DocId][1].end
  /\ pending[DocId].range.start.line # r0[DocId][1].start.line
  /\ pending[DocId].range.start.character # r0[DocId][1].start.character
  /\ pending[DocId].range.end.character # r0[DocId][1].end.character
  /\ getText(doc, pending[DocId].range) # <<>>

(***************************************************************************)
(* Claims about the tracker, under TrackerSpec.                            *)
(***************************************************************************)
\* C1: the range handed to the document write by applyResult is the range
\* given to track folded through shiftRange over every content change of
\* every event delivered on that document since, in delivery order; it is
\* not the range captured at track time once a change has moved it.
C1_WriteUsesRebasedRange ==
  \A id \in Ids :
    wrote[id] # <<>> => wrote[id][1].range = wrote[id][1].folded

\* a write issued after two events, at a range other than the tracked one
C1_Witness ==
  \E id \in Ids :
    /\ wrote[id] # <<>>
    /\ nEvents = 2
    /\ wrote[id][1].range # r0[id][1]
    /\ wrote[id][1].range.start.line > r0[id][1].start.line

\* C3: applyResult on a tracked id removes the id from tracking on every
\* outcome: document not open, no visible editor, write unsuccessful, write
\* successful, write failing with an exception.
C3_ApplyAlwaysRemoves ==
  \A id \in Ids :
    call[id] \in {"nodoc", "noeditor", "true", "false", "threw"} =>
      id \notin DOMAIN pending

\* C6: track with an id that is currently tracked is rejected: the
\* existing entry's document and range are left unchanged.
C6_TrackCollisionRejected ==
  [][ \A id \in Ids :
        (tracks'[id] = tracks[id] + 1 /\ id \in DOMAIN pending) =>
          (id \in DOMAIN pending' /\ pending'[id] = pending[id]) ]_vars

\* C10: after an event carrying [c1, ..., cn] the range stored for a
\* matching entry is rebase(...rebase(rebase(R, c1), c2)..., cn): each
\* change applies to the result of the one before, in the listed order.
C10_ChangesComposeInOrder ==
  \A id \in DOMAIN pending : pending[id].range = folded[id][1]

\* one event <<DeleteCharBefore, InsertLineAtTop>> has reached an entry
\* tracked at SingleLine: no other order and no single change gives its range
C10_Witness ==
  \E id \in DOMAIN pending :
    /\ r0[id] = <<SingleLine>>
    /\ nEvents = 1
    /\ pending[id].range = Range(Position(2, 0), Position(2, 1))
    /\ pending[id].range # Rebased(SingleLine, <<InsertLineAtTop, DeleteCharBefore>>)
    /\ pending[id].range # shiftRange(SingleLine, InsertLineAtTop)
    /\ pending[id].range # shiftRange(SingleLine, DeleteCharBefore)

\* C19: applyResult returns true exactly when the id is tracked, its
\* document and a visible editor of it are found, and the write reports
\* success; when the id is absent or the document or the editor is not
\* available it returns false, without throwing and without issuing a write.
C19_ApplyResultValue ==
  [][ \A id \in Ids :
        /\ (call[id] = "none" /\ call'[id] # "none") =>
             \A text \in ResultTexts, ws \in Workspaces :
               ApplyBegin(id, text, ws) =>
                 IF /\ id \in DOMAIN pending
                    /\ pending[id].uri \in ws.docs
                    /\ pending[id].uri \in ws.editors
                 THEN /\ applyReturns(call'[id]) = ""
                      /\ wrote'[id] = <<[range |-> pending[id].range, text |-> text,
                                         folded |-> folded[id][1]]>>
                 ELSE /\ applyReturns(call'[id]) = "false"
                      /\ wrote'[id] = <<>>
        /\ (call[id] = "writing" /\ call'[id] # "writing") =>
             \A outcome \in {"true", "false", "threw"} :
               ApplyEnd(id, outcome) =>
                 (wrote[id] # <<>> /\ applyReturns(call'[id]) = outcome) ]_vars

\* one call has returned true after its write and another has returned
\* false because no visible editor shows its document, with no write
C19_Witness ==
  \E i \in Ids, j \in Ids :
    /\ applyReturns(call[i]) = "true"
    /\ wrote[i] # <<>>
    /\ call[j] = "noeditor"
    /\ applyReturns(call[j]) = "false"
    /\ wrote[j] = <<>>

(***************************************************************************)
(* OpsSpec: the tracker under single operations.  A client calls track     *)
(* and remove and the host fires change events, at most MaxOps operations  *)
(* in all; before and last keep the map before the last operation and the  *)
(* operation itself, so that its effect can be read off a state.           *)
(***************************************************************************)
\* a range on the line of SingleLine, after it
SameLineLater == Range(Position(1, 4), Position(1, 5))

\* the rest of line 1 from column 2 and its line break
LineBreak == Range(Position(1, 2), Position(2, 0))

OpRanges == {SingleLine, MultiLine, SameLineLater, LineBreak}

InsertBetween ==
  ContentChange(Range(Position(1, 3), Position(1, 3)), <<"x">>)

BreakBetween ==
  ContentChange(Range(Position(1, 3), Position(1, 3)), <<"x", NL, "y">>)

DeleteBetween ==
  ContentChange(Range(Position(1, 3), Position(1, 4)), <<>>)

DeleteAll ==
  ContentChange(Range(Position(0, 0), Position(3, 2)), <<>>)

NoEffect ==
  ContentChange(Range(Position(1, 1), Position(1, 1)), <<>>)

OpChangeLists ==
  { <<InsertBetween>>, <<BreakBetween>>, <<DeleteBetween>>, <<DeleteAll>>,
    <<NoEffect>>, <<Overlapping>>, <<JoinLines>>, <<InsertAfter>>,
    <<InsertLineAtTop, DeleteBetween>>, <<InsertBetween, BreakBetween>> }

OpEvents == { ChangeEvent(uri, cs) : uri \in Uris, cs \in OpChangeLists }

TrackOp(id, uri, range) ==
  [op |-> "track", id |-> <<id>>, uri |-> uri, range |-> <<range>>, changes |-> <<>>]

RemoveOp(id) ==
  [op |-> "remove", id |-> <<id>>, uri |-> "", range |-> <<>>, changes |-> <<>>]

EventOp(e) ==
  [op |-> "event", id |-> <<>>, uri |-> e.uri, range |-> <<>>,
   changes |-> e.contentChanges]

OpsInit ==
  /\ RebaseIdle
  /\ TrackerFresh
  /\ DocIdle
  /\ CoordFresh
  /\ before = EmptyMap
  /\ last = <<>>
  /\ nOps = 0
  /\ runAtAbort = [s \in Slots |-> ""]
  /\ FnIdle

OpsFrame ==
  UNCHANGED <<rbVars, docVars, coordVars, call, wrote, r0, folded, tracks,
              nEvents, runAtAbort, fnVars>>

OpTrack(id, uri, range) ==
  /\ nOps < MaxOps
  /\ nOps' = nOps + 1
  /\ before' = pending
  /\ last' = <<TrackOp(id, uri, range)>>
  /\ pending' = track(pending, id, uri, range)
  /\ OpsFrame

OpRemove(id) ==
  /\ nOps < MaxOps
  /\ nOps' = nOps + 1
  /\ before' = pending
  /\ last' = <<RemoveOp(id)>>
  /\ pending' = remove(pending, id)
  /\ OpsFrame

OpEvent(e) ==
  /\ nOps < MaxOps
  /\ nOps' = nOps + 1
  /\ before' = pending
  /\ last' = <<EventOp(e)>>
  /\ pending' = adjustForChanges(pending, e)
  /\ OpsFrame

OpsNext ==
  \/ \E id \in Ids, uri \in Uris, range \in OpRanges : OpTrack(id, uri, range)
  \/ \E id \in Ids : OpRemove(id)
  \/ \E e \in OpEvents : OpEvent(e)

OpsSpec == OpsInit /\ [][OpsNext]_vars

\* the last operation was a change event
lastWasEvent == last # <<>> /\ last[1].op = "event"

\* C11: a change event of a document that no tracked edit targets leaves
\* activeCount and every tracked range unchanged; in general an event
\* changes only the entries whose document is the event's document.
C11_EventTouchesOnlyItsDocument ==
  lastWasEvent =>
    /\ \A i \in DOMAIN before :
         before[i].uri # last[1].uri => (i \in DOMAIN pending /\ pending[i] = before[i])
    /\ (\A i \in DOMAIN before : before[i].uri # last[1].uri) =>
         (activeCount(pending) = activeCount(before) /\ pending = before)

\* two edits are tracked in one document and a line was inserted at the top
\* of the other document
C11_Witness ==
  /\ lastWasEvent
  /\ last[1].uri = DocB
  /\ last[1].changes = <<InsertLineAtTop, DeleteBetween>>
  /\ activeCount(before) = 2
  /\ \A i \in DOMAIN before : before[i].uri = DocA

\* the change lies strictly between the two ranges: it starts after the
\* earlier one ends and ends before the later one starts
strictlyBetween(earlier, later, change) ==
  /\ isBefore(earlier.end, change.range.start)
  /\ isBefore(change.range.end, later.start)

\* where the text a change inserts ends
endOfInserted(change) ==
  LET newLines == split(change.text)
  IN  IF Len(newLines) = 1
      THEN Position(change.range.start.line,
                    change.range.start.character + Len(newLines[1]))
      ELSE Position(change.range.start.line + Len(newLines) - 1,
                    Len(newLines[Len(newLines)]))

\* where a position at or after the end of the replaced range is once the
\* change is made: on the line the change ends on it keeps its distance to
\* the end of the inserted text, on a later line it keeps its column
movedPosition(pos, change) ==
  IF pos.line = change.range.end.line
  THEN Position(endOfInserted(change).line,
                endOfInserted(change).character
                  + (pos.character - change.range.end.character))
  ELSE Position(pos.line + endOfInserted(change).line - change.range.end.line,
                pos.character)

movedRange(range, change) ==
  Range(movedPosition(range.start, change), movedPosition(range.end, change))

RECURSIVE movedBy(_, _)
movedBy(range, changes) ==
  IF changes = <<>> THEN range
  ELSE movedBy(movedRange(range, Head(changes)), Tail(changes))

\* every change of the list lies strictly between the two ranges as they
\* are when it is made
RECURSIVE allBetween(_, _, _)
allBetween(earlier, later, changes) ==
  \/ changes = <<>>
  \/ /\ strictlyBetween(earlier, later, Head(changes))
     /\ allBetween(earlier, movedRange(later, Head(changes)), Tail(changes))

\* C12: with two edits tracked in one document at disjoint ranges, a change
\* event that touches only the region strictly between them leaves the
\* earlier range as it was and moves the later range by the change's line
\* delta and, where the change ends on the later range's start line, by its
\* column delta.
C12_BetweenShiftsLaterOnly ==
  lastWasEvent =>
    \A i \in DOMAIN before, j \in DOMAIN before :
      ( /\ i # j
        /\ before[i].uri = last[1].uri
        /\ before[j].uri = last[1].uri
        /\ last[1].changes # <<>>
        /\ allBetween(before[i].range, before[j].range, last[1].changes) ) =>
        /\ pending[i].range = before[i].range
        /\ pending[j].range = movedBy(before[j].range, last[1].changes)

\* a line break was inserted between two ranges of one line: the later one
\* is on the next line at another column
C12_Witness ==
  /\ lastWasEvent
  /\ last[1].changes = <<BreakBetween>>
  /\ \E i \in DOMAIN before, j \in DOMAIN before :
       /\ before[i].uri = last[1].uri
       /\ before[j].uri = last[1].uri
       /\ before[i].range = SingleLine
       /\ before[j].range = SameLineLater
       /\ pending[i].range = SingleLine
       /\ pending[j].range = Range(Position(2, 2), Position(2, 3))

\* no coordinate of the range is negative (vscode.Position rejects
\* negative lines and characters)
nonNegative(range) ==
  /\ range.start.line >= 0
  /\ range.start.character >= 0
  /\ range.end.line >= 0
  /\ range.end.character >= 0

\* the change overlaps the range: it is in none of the three other branches
overlaps(range, change) ==
  /\ ~changeIsAfter(range, change)
  /\ ~changeIsBefore(range, change)
  /\ ~changeAbutsStart(range, change)

\* C14: handling a change event never fails and never adds or drops a
\* pending edit: the tracked ids, and so activeCount, are the same before
\* and after, also when a change overlaps or deletes a tracked range; every
\* rebased range is one a Position and Range can be built from.
C14_EventKeepsEveryEntry ==
  lastWasEvent =>
    /\ DOMAIN pending = DOMAIN before
    /\ activeCount(pending) = activeCount(before)
    /\ \A i \in DOMAIN pending :
         /\ pending[i].id = before[i].id
         /\ pending[i].uri = before[i].uri
         /\ nonNegative(pending[i].range)

\* a change that deletes the whole document was handled with two edits
\* tracked in it
C14_Witness ==
  /\ lastWasEvent
  /\ last[1].changes = <<DeleteAll>>
  /\ activeCount(before) = 2
  /\ \A i \in DOMAIN before :
       /\ before[i].uri = last[1].uri
       /\ overlaps(before[i].range, DeleteAll)
       /\ i \in DOMAIN pending

\* C16: every range stored in the tracker has start <= end (by line, then
\* column) after any sequence of change events, given that it had when it
\* was tracked.
C16_StoredRangesOrdered ==
  \A i \in DOMAIN pending :
    isBeforeOrEqual(pending[i].range.start, pending[i].range.end)

lastWasTrack == last # <<>> /\ last[1].op = "track"

lastWasRemove == last # <<>> /\ last[1].op = "remove"

\* C17: track of a fresh id raises activeCount by one and remove of a
\* tracked id lowers it by one, so track immediately followed by remove of
\* the same id on an empty tracker leaves activeCount at 0.
C17_TrackRemoveCount ==
  /\ (lastWasTrack /\ last[1].id[1] \notin DOMAIN before) =>
       activeCount(pending) = activeCount(before) + 1
  /\ (lastWasRemove /\ last[1].id[1] \in DOMAIN before) =>
       activeCount(pending) = activeCount(before) - 1
  /\ (lastWasRemove /\ nOps = 2 /\ DOMAIN before = {last[1].id[1]}) =>
       activeCount(pending) = 0

\* an id was tracked on the empty tracker and removed at once
C17_Witness ==
  /\ lastWasRemove
  /\ nOps = 2
  /\ DOMAIN before = {last[1].id[1]}
  /\ activeCount(before) = 1
  /\ activeCount(pending) = 0

\* C18: remove of an id that is not tracked changes nothing, remove twice
\* equals remove once, and in every case the ids and ranges of all other
\* pending edits stay as they are, also between change events.
C18_RemoveIsLocalAndIdempotent ==
  lastWasRemove =>
    /\ last[1].id[1] \notin DOMAIN before => pending = before
    /\ last[1].id[1] \notin DOMAIN pending
    /\ remove(pending, last[1].id[1]) = pending
    /\ \A i \in DOMAIN before \ {last[1].id[1]} :
         i \in DOMAIN pending /\ pending[i] = before[i]

\* an id that is not tracked was removed while the other edit, which a
\* change event has moved, is tracked
C18_Witness ==
  /\ lastWasRemove
  /\ last[1].id[1] \notin DOMAIN before
  /\ \E j \in DOMAIN pending :
       /\ pending[j].range \notin OpRanges
       /\ pending[j] = before[j]

\* the tracker `pend` with only the entries of D
onlyEntries(pend, D) == [i \in D |-> pend[i]]

\* the event of the last operation
lastEvent == ChangeEvent(last[1].uri, last[1].changes)

\* C29: pending edits are mutually independent under rebasing: the range
\* an event leaves an edit with is the one the same event gives that edit
\* whichever of the other edits are tracked and whatever their ranges and
\* documents are.
C29_RebasingIndependent ==
  lastWasEvent =>
    \A i \in DOMAIN before :
      /\ i \in DOMAIN pending
      /\ \A D \in SUBSET ((DOMAIN before) \ {i}) :
           adjustForChanges(onlyEntries(before, D \cup {i}), lastEvent)[i] = pending[i]
      /\ \A j \in (DOMAIN before) \ {i} :
           \A uri \in Uris, range \in OpRanges :
             adjustForChanges([before EXCEPT ![j] = PendingInsertion(j, uri, range)],
                              lastEvent)[i] = pending[i]

\* two edits of the changed document, both moved by the event, to
\* different ranges
C29_Witness ==
  /\ lastWasEvent
  /\ \E i, j \in DOMAIN before :
       /\ i # j
       /\ before[i].uri = last[1].uri
       /\ before[j].uri = last[1].uri
       /\ before[i].range # before[j].range
       /\ pending[i].range # before[i].range
       /\ pending[j].range # before[j].range
       /\ pending[i].range # pending[j].range

(***************************************************************************)
(* ProviderSpec: runs of a provider on their own.  A caller aborts the     *)
(* signal of a run at any moment, before the call of run included, while   *)
(* the child process ends, fails and closes in every order.                *)
(***************************************************************************)
ProviderInit ==
  /\ RebaseIdle
  /\ TrackerFresh
  /\ DocIdle
  /\ CoordStart
  /\ currentProvider \in Providers
  /\ before = EmptyMap
  /\ last = <<>>
  /\ nOps = 0
  /\ runAtAbort = [s \in Slots |-> ""]
  /\ FnIdle

ProviderFrame ==
  UNCHANGED <<rbVars, trackerVars, docVars, before, last, nOps, requestCounter,
              activeRequests, abortControllers, currentProvider, pc, rid, ctx,
              issued, applied, cancelWhile, deactivated, fnVars>>

\* run(params): the process is spawned; with a signal that is aborted
\* already it is killed and the promise resolved before the 'error' and
\* 'close' handlers are registered, otherwise onAbort is registered
RunCalled(s) ==
  /\ run[s] = "none"
  /\ run' = [run EXCEPT ![s] = runStart(aborted[s])]
  /\ proc' = [proc EXCEPT ![s] = IF aborted[s] THEN "unwatched" ELSE "running"]
  /\ listening' = [listening EXCEPT ![s] = ~aborted[s]]
  /\ UNCHANGED <<aborted, runAtAbort>>
  /\ ProviderFrame

\* the caller aborts the signal: onAbort runs if it is registered
SignalAborts(s) ==
  /\ ~aborted[s]
  /\ aborted' = [aborted EXCEPT ![s] = TRUE]
  /\ runAtAbort' = [runAtAbort EXCEPT ![s] = run[s]]
  /\ IF listening[s]
     THEN /\ run' = [run EXCEPT ![s] = onAbort(@)]
          /\ proc' = [proc EXCEPT ![s] = IF @ = "running" THEN "killed" ELSE @]
          /\ listening' = [listening EXCEPT ![s] = FALSE]
     ELSE UNCHANGED <<run, proc, listening>>
  /\ ProviderFrame

\* the child process ends; its 'close' event is still to come
ChildExits(s, exit) ==
  /\ proc[s] = "running"
  /\ proc' = [proc EXCEPT ![s] = exit]
  /\ UNCHANGED <<aborted, run, listening, runAtAbort>>
  /\ ProviderFrame

\* the 'error' event of the child process
ChildError(s) ==
  /\ proc[s] = "running"
  /\ proc' = [proc EXCEPT ![s] = "failed"]
  /\ listening' = [listening EXCEPT ![s] = FALSE]
  /\ run' = [run EXCEPT ![s] = settle(@, "rejected")]
  /\ UNCHANGED <<aborted, runAtAbort>>
  /\ ProviderFrame

\* the 'close' event of the child process
ChildClose(s) ==
  /\ proc[s] \in {"ok", "blank", "failed", "killed"}
  /\ proc' = [proc EXCEPT ![s] = "closed"]
  /\ listening' = [listening EXCEPT ![s] = FALSE]
  /\ run' = [run EXCEPT ![s] =
               settle(@, closeHandler(currentProvider, proc[s], aborted[s]))]
  /\ UNCHANGED <<aborted, runAtAbort>>
  /\ ProviderFrame

ProviderNext ==
  \/ \E s \in Slots : RunCalled(s)
  \/ \E s \in Slots : SignalAborts(s)
  \/ \E s \in Slots, exit \in {"ok", "blank", "failed"} : ChildExits(s, exit)
  \/ \E s \in Slots : ChildError(s)
  \/ \E s \in Slots : ChildClose(s)

ProviderSpec == ProviderInit /\ [][ProviderNext]_vars

\* the promise is resolved with cancelled = false
resolvedSuccessful(runState) == runState \in {"text", "blank"}

\* C20: a provider run never resolves as successful (cancelled = false,
\* with the generated text) after its abort signal has been observed, in
\* every order of the abort, the process error and the process close; a run
\* whose signal is aborted already when it is called resolves as cancelled.
C20_NoSuccessAfterAbort ==
  \A s \in Slots :
    aborted[s] =>
      /\ resolvedSuccessful(run[s]) => runAtAbort[s] = run[s]
      /\ runAtAbort[s] = "pending" => run[s] = "cancelled"
      /\ runAtAbort[s] = "none" => run[s] \in {"none", "cancelled"}

\* one run was aborted while its promise was pending, and the 'close' event
\* of its process has come since; another was called with its signal
\* aborted already
C20_Witness ==
  \E s \in Slots, t \in Slots :
    /\ aborted[s]
    /\ runAtAbort[s] = "pending"
    /\ proc[s] = "closed"
    /\ run[s] = "cancelled"
    /\ aborted[t]
    /\ runAtAbort[t] = "none"
    /\ run[t] = "cancelled"

\* the promise of a run has been resolved or rejected
settled(runState) == runState \in {"text", "blank", "cancelled", "rejected"}

\* C38: each provider run settles exactly once, with the outcome of
\* whichever of abort, process error and process close happens first
\* (cancelled, rejected, or resolved with text); later events never change
\* the outcome, and a run is not left unsettled once the process has
\* closed.
C38_SettlesOnceWithFirst ==
  [][\A s \in Slots :
       /\ settled(run[s]) => run'[s] = run[s]
       /\ (run[s] = "pending" /\ settled(run'[s])) =>
            /\ (~aborted[s] /\ aborted'[s]) => run'[s] = "cancelled"
            /\ (proc[s] = "running" /\ proc'[s] = "failed") => run'[s] = "rejected"
            /\ proc'[s] = "closed" =>
                 run'[s] = closeHandler(currentProvider, proc[s], FALSE)
       /\ proc'[s] = "closed" => settled(run'[s])]_vars

\* one run was aborted after its process had ended and before the 'close'
\* event, another was aborted after the 'error' event of its process; both
\* processes have closed since, and each run has kept its first outcome
C38_Witness ==
  \E s \in Slots, t \in Slots :
    /\ aborted[s]
    /\ runAtAbort[s] = "pending"
    /\ run[s] = "cancelled"
    /\ proc[s] = "closed"
    /\ aborted[t]
    /\ runAtAbort[t] = "rejected"
    /\ run[t] = "rejected"
    /\ proc[t] = "closed"

(***************************************************************************)
(* getEnclosingBlock: the brace-delimited block around a cursor position.  *)
(* Offsets count from 0 as in the code; text[i] of the code is             *)
(* charAt(text, i).                                                        *)
(***************************************************************************)
charAt(text, i) == text[i + 1]

\* TextDocument.positionAt: walk the lines, taking each line and its
\* newline off the offset; past the end, the end of the last line
RECURSIVE positionAtFrom(_, _, _)
positionAtFrom(lines, i, remaining) ==
  IF i >= Len(lines) THEN Position(Len(lines) - 1, Len(lines[Len(lines)]))
  ELSE IF remaining <= Len(lines[i + 1]) THEN Position(i, remaining)
  ELSE positionAtFrom(lines, i + 1, remaining - Len(lines[i + 1]) - 1)

positionAt(lines, offset) == positionAtFrom(lines, 0, offset)

\* TextDocument.lineAt: the line's text and the range it covers
lineAt(lines, lineNum) ==
  LET text == IF lineNum >= 0 /\ lineNum < Len(lines) THEN lines[lineNum + 1] ELSE <<>>
  IN  [text |-> text,
       lineNumber |-> lineNum,
       range |-> Range(Position(lineNum, 0), Position(lineNum, Len(text)))]

WhiteSpace == {" ", "\t", "\r", NL}

\* String.prototype.trimEnd
RECURSIVE trimEnd(_)
trimEnd(s) ==
  IF Len(s) > 0 /\ s[Len(s)] \in WhiteSpace
    THEN trimEnd(SubSeq(s, 1, Len(s) - 1))
    ELSE s

\* String.prototype.trimStart
RECURSIVE trimStart(_)
trimStart(s) ==
  IF Len(s) > 0 /\ s[1] \in WhiteSpace THEN trimStart(Tail(s)) ELSE s

\* String.prototype.trim
trim(s) == trimEnd(trimStart(s))

\* String.prototype.endsWith
endsWith(s, suffix) ==
  /\ Len(s) >= Len(suffix)
  /\ SubSeq(s, Len(s) - Len(suffix) + 1, Len(s)) = suffix

\* String.prototype.startsWith
startsWith(s, prefix) ==
  /\ Len(s) >= Len(prefix)
  /\ SubSeq(s, 1, Len(prefix)) = prefix

\* "Scan backwards for unmatched opening brace": the loop at index i with
\* the depth counted so far; -1 when index 0 is passed
RECURSIVE scanBackward(_, _, _)
scanBackward(text, i, depth) ==
  IF i < 0 THEN -1
  ELSE IF charAt(text, i) = "}" THEN scanBackward(text, i - 1, depth + 1)
  ELSE IF charAt(text, i) = "{"
    THEN IF depth = 0 THEN i ELSE scanBackward(text, i - 1, depth - 1)
  ELSE scanBackward(text, i - 1, depth)

\* mutant of scanForward: the scan does not stop at the end of the line
RECURSIVE scanForwardAcrossLines(_, _)
scanForwardAcrossLines(text, i) ==
  IF i >= Len(text) THEN -1
  ELSE IF charAt(text, i) = "{" THEN i
  ELSE scanForwardAcrossLines(text, i + 1)

\* "check forward on the current line for a `{`": the loop at index i
RECURSIVE scanForward(_, _)
scanForward(text, i) ==
  IF i >= Len(text) THEN -1
  ELSE IF charAt(text, i) = NL THEN -1
  ELSE IF charAt(text, i) = "{" THEN i
  ELSE scanForward(text, i + 1)

\* mutant of blockStartOf: the outermost unmatched opening brace before the
\* cursor instead of the nearest one
RECURSIVE outermostFrom(_, _, _, _)
outermostFrom(text, i, depth, found) ==
  IF i < 0 THEN found
  ELSE IF charAt(text, i) = "}" THEN outermostFrom(text, i - 1, depth + 1, found)
  ELSE IF charAt(text, i) = "{"
    THEN IF depth = 0 THEN outermostFrom(text, i - 1, 0, i)
         ELSE outermostFrom(text, i - 1, depth - 1, found)
  ELSE outermostFrom(text, i - 1, depth, found)

blockStartOutermost(text, offset) ==
  LET back == outermostFrom(text, offset - 1, 0, -1)
  IN  IF back # -1 THEN back ELSE scanForward(text, offset)

\* blockStart after both scans: the backward scan's brace, else the
\* forward scan's, else -1
blockStartOf(text, offset) ==
  LET back == scanBackward(text, offset - 1, 0)
  IN  IF back # -1 THEN back ELSE scanForward(text, offset)

\* mutant of matchClosing: end of text closes an unmatched block
RECURSIVE matchClosingOrEnd(_, _, _)
matchClosingOrEnd(text, i, depth) ==
  IF i >= Len(text) THEN Len(text)
  ELSE IF charAt(text, i) = "{" THEN matchClosingOrEnd(text, i + 1, depth + 1)
  ELSE IF charAt(text, i) = "}"
    THEN IF depth = 1 THEN i + 1 ELSE matchClosingOrEnd(text, i + 1, depth - 1)
  ELSE matchClosingOrEnd(text, i + 1, depth)

\* mutant of matchClosing: the first closing brace ends the block, nested
\* or not
RECURSIVE matchClosingFirst(_, _, _)
matchClosingFirst(text, i, depth) ==
  IF i >= Len(text) THEN -1
  ELSE IF charAt(text, i) = "}" THEN i + 1
  ELSE matchClosingFirst(text, i + 1, depth)

\* "Find matching closing brace": the loop at index i with the depth
\* counted so far; blockEnd is one past the brace, -1 at end of text
RECURSIVE matchClosing(_, _, _)
matchClosing(text, i, depth) ==
  IF i >= Len(text) THEN -1
  ELSE IF charAt(text, i) = "{" THEN matchClosing(text, i + 1, depth + 1)
  ELSE IF charAt(text, i) = "}"
    THEN IF depth = 1 THEN i + 1 ELSE matchClosing(text, i + 1, depth - 1)
  ELSE matchClosing(text, i + 1, depth)

\* the test that ends the walk over the lines above the opening brace
endsDeclaration(lineText) ==
  \/ lineText = <<>>
  \/ endsWith(lineText, <<";">>)
  \/ endsWith(lineText, <<"}">>)
  \/ endsWith(lineText, <<"{">>)

\* mutant of firstLineFrom: the line that ends the walk is taken too
RECURSIVE firstLineWithTerminator(_, _, _)
firstLineWithTerminator(lines, line, firstLine) ==
  IF line < 0 THEN firstLine
  ELSE IF endsDeclaration(trimEnd(lineAt(lines, line).text)) THEN line
  ELSE firstLineWithTerminator(lines, line - 1, line)

\* "Walk backwards to include preceding declaration lines": the loop at
\* `line` with the firstLine found so far
RECURSIVE firstLineFrom(_, _, _)
firstLineFrom(lines, line, firstLine) ==
  IF line < 0 THEN firstLine
  ELSE IF endsDeclaration(trimEnd(lineAt(lines, line).text)) THEN firstLine
  ELSE firstLineFrom(lines, line - 1, line)

\* the result object { text, range }
Block(lines, range) == [text |-> getText(lines, range), range |-> range]

\* mutant of getEnclosingBlock: without a block the cursor's line is
\* returned
getEnclosingBlockOrLine(lines, position) ==
  LET text == join(lines)
      blockStart == blockStartOf(text, offsetAt(lines, position))
      blockEnd == IF blockStart = -1 THEN -1 ELSE matchClosing(text, blockStart + 1, 1)
  IN  IF blockStart = -1 \/ blockEnd = -1
        THEN <<Block(lines, lineAt(lines, position.line).range)>>
        ELSE <<Block(lines,
                     Range(Position(firstLineFrom(lines, positionAt(lines, blockStart).line - 1,
                                                  positionAt(lines, blockStart).line), 0),
                           lineAt(lines, positionAt(lines, blockEnd).line).range.end))>>

\* mutant of getEnclosingBlock: the range runs from the opening brace to
\* the closing brace
getEnclosingBlockBraces(lines, position) ==
  LET text == join(lines)
      blockStart == blockStartOf(text, offsetAt(lines, position))
      blockEnd == IF blockStart = -1 THEN -1 ELSE matchClosing(text, blockStart + 1, 1)
  IN  IF blockStart = -1 \/ blockEnd = -1 THEN <<>>
      ELSE <<Block(lines, Range(positionAt(lines, blockStart), positionAt(lines, blockEnd)))>>

\* getEnclosingBlock(document, position): <<>> for null, else <<block>>
getEnclosingBlock(lines, position) ==
  LET text == join(lines)
      offset == offsetAt(lines, position)
      blockStart == blockStartOf(text, offset)
      blockEnd == IF blockStart = -1 THEN -1 ELSE matchClosing(text, blockStart + 1, 1)
  IN  IF blockStart = -1 THEN <<>>
      ELSE IF blockEnd = -1 THEN <<>>
      ELSE LET startPos == positionAt(lines, blockStart)
               firstLine == firstLineFrom(lines, startPos.line - 1, startPos.line)
               endPos == positionAt(lines, blockEnd)
               endLine == lineAt(lines, endPos.line)
               range == Range(Position(firstLine, 0), endLine.range.end)
           IN  <<Block(lines, range)>>

(***************************************************************************)
(* BlockSpec: getEnclosingBlock as a pure function of (document, cursor).  *)
(* A document is up to MaxBlockLines lines, each one of LineForms.         *)
(***************************************************************************)
MaxBlockLines == 3

LineForms ==
  { <<>>, <<" ">>, <<"a">>, <<"a", ";">>, <<"a", " ">>, <<"{">>, <<"}">>,
    <<"{", "}">>, <<"a", "{">>, <<"}", " ">> }

BlockDocs ==
  UNION { [1..n -> LineForms] : n \in 1..MaxBlockLines }

BlockInit ==
  /\ \E lines \in BlockDocs :
       \E position \in positionsOf(lines) :
         input = <<lines, position>>
  /\ output = <<>>
  /\ RebaseIdle
  /\ TrackerFresh
  /\ DocIdle
  /\ CoordFresh
  /\ OpIdle

Locate ==
  /\ output = <<>>
  /\ output' = <<getEnclosingBlock(input[1], input[2])>>
  /\ UNCHANGED input
  /\ UNCHANGED <<rbVars, trackerVars, docVars, coordVars, opVars>>

BlockNext == Locate

BlockSpec == BlockInit /\ [][BlockNext]_vars

\* the call has returned; its arguments and its result
located == output # <<>>

theLines == input[1]

theText == join(input[1])

theOffset == offsetAt(input[1], input[2])

returned == output[1]

(***************************************************************************)
(* Claims about getEnclosingBlock, stated over the text itself: brace      *)
(* matching by counting, lines by counting newlines.                       *)
(***************************************************************************)
offsetsOf(text) == 0..(Len(text) - 1)

hasChar(text, c) == \E k \in offsetsOf(text) : charAt(text, k) = c

\* opening braces minus closing braces among the offsets a..b
RECURSIVE netBraces(_, _, _)
netBraces(text, a, b) ==
  IF a > b THEN 0
  ELSE (IF charAt(text, a) = "{" THEN 1
        ELSE IF charAt(text, a) = "}" THEN -1 ELSE 0)
       + netBraces(text, a + 1, b)

\* the closing brace at e matches the opening brace at s: the braces
\* strictly between them are balanced
isMatch(text, s, e) ==
  /\ s < e
  /\ charAt(text, s) = "{"
  /\ charAt(text, e) = "}"
  /\ netBraces(text, s, e) = 0
  /\ \A k \in s..(e - 1) : netBraces(text, s, k) > 0

closes(text, s) == \E e \in offsetsOf(text) : isMatch(text, s, e)

\* an opening brace before the cursor that is still open at the cursor
openAt(text, s, offset) ==
  /\ s < offset
  /\ charAt(text, s) = "{"
  /\ ~\E e \in s..(offset - 1) : isMatch(text, s, e)

\* the line an offset lies on, and the position at the end of that line
lineOf(text, offset) ==
  Cardinality({ k \in 0..(offset - 1) : charAt(text, k) = NL })

endOfLine(lines, line) == Position(line, Len(lines[line + 1]))

\* a line that belongs to a signature above an opening brace
continuesSignature(lines, line) ==
  LET t == trimEnd(lines[line + 1])
  IN  t # <<>> /\ t[Len(t)] \notin {";", "}", "{"}

\* the topmost line of the maximal run of signature lines directly above
\* `line`; `line` itself when the line above it does not qualify
signatureTop(lines, line) ==
  CHOOSE k \in 0..line :
    /\ \A j \in k..(line - 1) : continuesSignature(lines, j)
    /\ k = 0 \/ ~continuesSignature(lines, k - 1)

\* the extent of the pair (s, e) with its signature lines
extentOf(lines, s, e) ==
  Range(Position(signatureTop(lines, lineOf(join(lines), s)), 0),
        endOfLine(lines, lineOf(join(lines), e)))

\* C21: for text containing neither '{' nor '}', getEnclosingBlock returns
\* none for every cursor offset.
C21_NoBracesNone ==
  (located /\ ~hasChar(theText, "{") /\ ~hasChar(theText, "}"))
    => returned = <<>>

C21_Witness ==
  /\ located
  /\ Len(theLines) > 1
  /\ theOffset > 0
  /\ ~hasChar(theText, "{")
  /\ ~hasChar(theText, "}")
  /\ returned = <<>>

\* C22: if the opening brace chosen as block start, by the backward scan
\* or by the forward fallback, has no matching closing brace before the end
\* of the text, getEnclosingBlock returns none.
C22_UnmatchedStartNone ==
  (located /\ blockStartOf(theText, theOffset) # -1
           /\ ~closes(theText, blockStartOf(theText, theOffset)))
    => returned = <<>>

C22_Witness ==
  /\ located
  /\ blockStartOf(theText, theOffset) # -1
  /\ ~closes(theText, blockStartOf(theText, theOffset))
  /\ hasChar(theText, "}")
  /\ returned = <<>>

\* C23 as stated: for any text that contains an opening brace that never
\* closes, getEnclosingBlock returns none, whatever the cursor offset.
C23_AnyUnclosedNone ==
  (located /\ \E s \in offsetsOf(theText) :
                 charAt(theText, s) = "{" /\ ~closes(theText, s))
    => returned = <<>>

\* C23 amended: for any text that contains opening braces none of which
\* closes, getEnclosingBlock returns none, whatever the cursor offset.
C23_NoneClosesNone ==
  (located /\ hasChar(theText, "{")
           /\ \A s \in offsetsOf(theText) :
                charAt(theText, s) = "{" => ~closes(theText, s))
    => returned = <<>>

C23_Witness ==
  /\ located
  /\ hasChar(theText, "{")
  /\ \A s \in offsetsOf(theText) :
       charAt(theText, s) = "{" => ~closes(theText, s)
  /\ blockStartOf(theText, theOffset) # -1
  /\ returned = <<>>

\* the pair (s, e) encloses the cursor, and no pair inside it does
encloses(text, s, e, offset) == isMatch(text, s, e) /\ s < offset /\ offset <= e

innermost(text, s, e, offset) ==
  /\ encloses(text, s, e, offset)
  /\ \A s2 \in (s + 1)..(offset - 1) :
       ~\E e2 \in offsetsOf(text) : encloses(text, s2, e2, offset)

\* C24: with nested braces and the cursor inside the inner pair,
\* getEnclosingBlock returns the extent of the innermost pair with its
\* signature lines, not the outer block.
C24_InnermostSelected ==
  located =>
    \A s, e \in offsetsOf(theText) :
      (/\ innermost(theText, s, e, theOffset)
       /\ \E s2 \in 0..(s - 1) : \E e2 \in offsetsOf(theText) :
            encloses(theText, s2, e2, theOffset))
        => /\ returned # <<>>
           /\ returned[1].range = extentOf(theLines, s, e)

C24_Witness ==
  /\ located
  /\ returned # <<>>
  /\ \E s, e \in offsetsOf(theText) :
       /\ innermost(theText, s, e, theOffset)
       /\ returned[1].range = extentOf(theLines, s, e)
       /\ \E s2 \in 0..(s - 1) : \E e2 \in offsetsOf(theText) :
            /\ encloses(theText, s2, e2, theOffset)
            /\ extentOf(theLines, s2, e2) # extentOf(theLines, s, e)

\* C25: when getEnclosingBlock returns a block, its range is non-empty and
\* lies in the document, and it is bounded by the closing brace that
\* matches the opening brace the scans found: the range holds both braces
\* and ends on the line of the closing one.
C25_RangeBoundedByMatch ==
  (located /\ returned # <<>>) =>
    LET range == returned[1].range
        s == blockStartOf(theText, theOffset)
    IN  /\ validRange(theLines, range)
        /\ isBefore(range.start, range.end)
        /\ Len(returned[1].text) > 0
        /\ s # -1
        /\ \E e \in offsetsOf(theText) :
             /\ isMatch(theText, s, e)
             /\ offsetAt(theLines, range.start) <= s
             /\ e < offsetAt(theLines, range.end)
             /\ range.end.line = lineOf(theText, e)

C25_Witness ==
  /\ located
  /\ returned # <<>>
  /\ \E e \in offsetsOf(theText) :
       /\ isMatch(theText, blockStartOf(theText, theOffset), e)
       /\ hasChar(SubSeq(theText, blockStartOf(theText, theOffset) + 2, e), "}")
       /\ returned[1].range.end.line = lineOf(theText, e)

\* the first opening brace at or after the cursor on the cursor's line
firstOnLine(text, offset, b) ==
  /\ b >= offset
  /\ b < Len(text)
  /\ charAt(text, b) = "{"
  /\ \A k \in offset..(b - 1) : charAt(text, k) \notin {"{", NL}

\* C26: the forward fallback is used only when no opening brace before the
\* cursor is open at the cursor; it takes the first '{' between the cursor
\* and the next newline, and without one the result is none even when a
\* later line has a '{'.
C26_ForwardOnCursorLine ==
  located =>
    LET b == blockStartOf(theText, theOffset)
        openBefore == \E s \in offsetsOf(theText) : openAt(theText, s, theOffset)
    IN  /\ (b # -1 /\ b >= theOffset)
             => ~openBefore /\ firstOnLine(theText, theOffset, b)
        /\ (~openBefore
              /\ ~\E k \in offsetsOf(theText) : firstOnLine(theText, theOffset, k))
             => b = -1 /\ returned = <<>>

C26_Witness ==
  /\ located
  /\ blockStartOf(theText, theOffset) > theOffset
  /\ returned # <<>>

\* C27: the first line of the returned block is the topmost line of the
\* maximal run of lines directly above the opening brace's line that, with
\* trailing whitespace trimmed, are non-empty and do not end in ';', '}' or
\* '{'.
C27_FirstLineIsSignatureTop ==
  (located /\ returned # <<>>) =>
    returned[1].range.start.line
      = signatureTop(theLines, lineOf(theText, blockStartOf(theText, theOffset)))

C27_Witness ==
  /\ located
  /\ returned # <<>>
  /\ returned[1].range.start.line > 0
  /\ returned[1].range.start.line
       < lineOf(theText, blockStartOf(theText, theOffset))

\* C28: the returned range starts at column 0 of the first line and ends
\* at the end of the line holding the matching closing brace, and the
\* returned text is the lines of that range, whole, joined by newlines.
C28_WholeLines ==
  (located /\ returned # <<>>) =>
    LET range == returned[1].range
    IN  /\ range.start.character = 0
        /\ \E e \in offsetsOf(theText) :
             /\ isMatch(theText, blockStartOf(theText, theOffset), e)
             /\ range.end = endOfLine(theLines, lineOf(theText, e))
        /\ range.start.line <= range.end.line
        /\ returned[1].text
             = join(SubSeq(theLines, range.start.line + 1, range.end.line + 1))

C28_Witness ==
  /\ located
  /\ returned # <<>>
  /\ returned[1].range.start.line < returned[1].range.end.line
  /\ positionAt(theLines, blockStartOf(theText, theOffset)).character > 0
  /\ \E e \in offsetsOf(theText) :
       /\ isMatch(theText, blockStartOf(theText, theOffset), e)
       /\ returned[1].range.end.character > positionAt(theLines, e).character + 1

(***************************************************************************)
(* parseSlashCommand: a slash command at the start of the prompt input.    *)
(***************************************************************************)
QuickAction(label, slash) == [label |-> label, slash |-> slash]

QUICK_ACTIONS ==
  << QuickAction("Document", <<"d", "o", "c", "u", "m", "e", "n", "t">>),
     QuickAction("Refactor", <<"r", "e", "f", "a", "c", "t", "o", "r">>),
     QuickAction("Explain", <<"e", "x", "p", "l", "a", "i", "n">>),
     QuickAction("Fix", <<"f", "i", "x">>) >>

\* String.prototype.slice(start)
slice(s, start) == SubSeq(s, start + 1, Len(s))

\* mutant of parseFrom: the command name only has to be a prefix of the
\* input
RECURSIVE parseFromPrefixOnly(_, _)
parseFromPrefixOnly(trimmed, k) ==
  IF k > Len(QUICK_ACTIONS) THEN <<>>
  ELSE LET action == QUICK_ACTIONS[k]
           prefix == <<"/">> \o action.slash
       IN  IF startsWith(trimmed, prefix)
             THEN <<[action |-> action, extra |-> trim(slice(trimmed, Len(prefix)))]>>
             ELSE parseFromPrefixOnly(trimmed, k + 1)

\* the loop over QUICK_ACTIONS from its k-th element on
RECURSIVE parseFrom(_, _)
parseFrom(trimmed, k) ==
  IF k > Len(QUICK_ACTIONS) THEN <<>>
  ELSE LET action == QUICK_ACTIONS[k]
           prefix == <<"/">> \o action.slash
       IN  IF trimmed = prefix \/ startsWith(trimmed, prefix \o <<" ">>)
             THEN <<[action |-> action, extra |-> trim(slice(trimmed, Len(prefix)))]>>
             ELSE parseFrom(trimmed, k + 1)

\* parseSlashCommand(input): <<>> for null, else <<{ action, extra }>>
parseSlashCommand(inputText) ==
  LET trimmed == trim(inputText)
  IN  IF ~startsWith(trimmed, <<"/">>) THEN <<>>
      ELSE parseFrom(trimmed, 1)

(***************************************************************************)
(* SlashSpec: parseSlashCommand as a pure function of its input.  An input *)
(* is up to MaxPad blanks, an optional slash, a word and a tail.           *)
(***************************************************************************)
MaxPad == 1

Pads == UNION { [1..n -> {" "}] : n \in 0..MaxPad }

Words ==
  { QUICK_ACTIONS[k].slash : k \in 1..Len(QUICK_ACTIONS) }
    \cup { <<>>, <<"d", "o", "c">>, <<"r", "e", "f">>, <<"f", "i">>,
           <<"f", "i", "x", "x">>, <<"F", "i", "x">>,
           <<"u", "n", "k", "n", "o", "w", "n">> }

Tails ==
  { <<>>, <<" ">>, <<" ", "x">>, <<" ", "x", " ">>, <<" ", " ", "x", " ", "y">>,
    <<"\t", "x">>, <<"/">>, <<" ", "/", "f", "i", "x">> }

SlashInit ==
  /\ \E pad \in Pads, slash \in {<<>>, <<"/">>}, word \in Words, tail \in Tails :
       input = <<pad \o slash \o word \o tail>>
  /\ output = <<>>
  /\ RebaseIdle
  /\ TrackerFresh
  /\ DocIdle
  /\ CoordFresh
  /\ OpIdle

Parse ==
  /\ output = <<>>
  /\ output' = <<parseSlashCommand(input[1])>>
  /\ UNCHANGED input
  /\ UNCHANGED <<rbVars, trackerVars, docVars, coordVars, opVars>>

SlashNext == Parse

SlashSpec == SlashInit /\ [][SlashNext]_vars

\* the call has returned; its result
parsed == output # <<>>

matched == output[1]

\* the input between its first and its last character that is not white
\* space
stripped(s) ==
  LET inked == { k \in 1..Len(s) : s[k] \notin WhiteSpace }
  IN  IF inked = {} THEN <<>>
      ELSE SubSeq(s, CHOOSE k \in inked : \A m \in inked : k <= m,
                     CHOOSE k \in inked : \A m \in inked : k >= m)

KnownCommands ==
  { <<"/", "d", "o", "c", "u", "m", "e", "n", "t">>,
    <<"/", "r", "e", "f", "a", "c", "t", "o", "r">>,
    <<"/", "e", "x", "p", "l", "a", "i", "n">>,
    <<"/", "f", "i", "x">> }

\* the input is the command, alone or followed by a blank and more
invokes(s, command) ==
  \/ stripped(s) = command
  \/ /\ Len(stripped(s)) > Len(command)
     /\ SubSeq(stripped(s), 1, Len(command) + 1) = command \o <<" ">>

\* C30: parseSlashCommand returns a match exactly when the trimmed input is
\* '/<name>' or starts with '/<name> ' for one of document, refactor,
\* explain and fix; the match names that command and its extra is the
\* trimmed remainder; everything else, input without a leading slash,
\* unknown and partial command names included, gives null.
C30_MatchesKnownCommands ==
  parsed =>
    /\ matched # <<>> <=> \E command \in KnownCommands : invokes(input[1], command)
    /\ \A command \in KnownCommands :
         invokes(input[1], command) =>
           /\ matched # <<>>
           /\ <<"/">> \o matched[1].action.slash = command
           /\ matched[1].extra
                = stripped(SubSeq(stripped(input[1]), Len(command) + 1,
                                  Len(stripped(input[1]))))

C30_Witness ==
  /\ parsed
  /\ matched # <<>>
  /\ matched[1].extra # <<>>
  /\ input[1][1] = " "
  /\ Len(matched[1].extra) + Len(matched[1].action.slash) + 3 < Len(input[1])

(***************************************************************************)
(* PairSpec: two pending edits of one document, with ranges that do not    *)
(* overlap, applied one after the other in either order.  The document's   *)
(* text is modelled; the change event of a write reaches the tracker       *)
(* before applyResult resumes and before the other edit is applied.        *)
(***************************************************************************)
EditA == reqId(1)

EditB == reqId(2)

TextsA == { <<>>, <<"x">>, <<NL, "x">> }

TextsB == { <<>>, <<"y">>, <<"y", NL>> }

\* the ranges share no character: one ends at or before the start of the
\* other
disjoint(a, b) ==
  \/ isBeforeOrEqual(a.end, b.start)
  \/ isBeforeOrEqual(b.end, a.start)

PairInit ==
  /\ RebaseIdle
  /\ CoordFresh
  /\ OpIdle
  /\ output = <<>>
  /\ orig = OrigDoc
  /\ doc = OrigDoc
  /\ \E a \in rangesOf(OrigDoc), b \in rangesOf(OrigDoc) :
       /\ disjoint(a, b)
       /\ pending = track(track(EmptyMap, EditA, DocA, a), EditB, DocA, b)
       /\ r0 = [i \in Ids |-> IF i = EditA THEN <<a>> ELSE <<b>>]
       /\ folded = [i \in Ids |-> IF i = EditA THEN <<a>> ELSE <<b>>]
  /\ \E ta \in TextsA, tb \in TextsB :
       input = [i \in Ids |-> IF i = EditA THEN ta ELSE tb]
  /\ call = [i \in Ids |-> "none"]
  /\ wrote = [i \in Ids |-> <<>>]
  /\ tracks = [i \in Ids |-> 1]
  /\ nEvents = 0

\* applyResult(id, text) up to its await: the document is open and shown,
\* editor.edit is called with the entry's range
WriteBegin(id) ==
  /\ call[id] = "none"
  /\ \A i \in Ids : call[i] # "writing"
  /\ id \in DOMAIN pending
  /\ applyLookup(pending[id], {DocA}, {DocA}) = "edit"
  /\ call' = [call EXCEPT ![id] = "writing"]
  /\ wrote' = [wrote EXCEPT ![id] =
                 <<[range |-> pending[id].range, text |-> input[id],
                    folded |-> folded[id][1]]>>]
  /\ UNCHANGED <<pending, r0, folded, tracks, nEvents, doc, orig>>
  /\ UNCHANGED <<rbVars, coordVars, opVars, fnVars>>

\* editor.edit settles with true: the document has the text in place of
\* the range, the change event has reached the listener, and applyResult
\* resumes and deletes the entry
WriteEnd(id) ==
  /\ call[id] = "writing"
  /\ LET change == ContentChange(wrote[id][1].range, wrote[id][1].text)
         e == ChangeEvent(pending[id].uri, <<change>>)
     IN  /\ doc' = applyChange(doc, change)
         /\ pending' = applySettled(adjustForChanges(pending, e), id, "true")
  /\ call' = [call EXCEPT ![id] = "true"]
  /\ nEvents' = nEvents + 1
  /\ UNCHANGED <<wrote, r0, folded, tracks, orig>>
  /\ UNCHANGED <<rbVars, coordVars, opVars, fnVars>>

PairNext == \E id \in Ids : WriteBegin(id) \/ WriteEnd(id)

PairSpec == PairInit /\ [][PairNext]_vars

\* both edits have been applied
bothWritten == \A i \in Ids : call[i] = "true"

\* the document after edit `first` and then edit `second` are applied to
\* the original document, each at the range the tracker holds for it then
afterOne(lines, pend, id) ==
  LET change == ContentChange(pend[id].range, input[id])
  IN  [lines |-> applyChange(lines, change),
       pend |-> remove(adjustForChanges(pend, ChangeEvent(DocA, <<change>>)), id)]

inOrder(first, second) ==
  LET start == track(track(EmptyMap, EditA, DocA, r0[EditA][1]), EditB, DocA, r0[EditB][1])
      one == afterOne(orig, start, first)
  IN  afterOne(one.lines, one.pend, second).lines

\* the original text with each range replaced by its edit's text; `upper`
\* is the edit whose range comes first in the document
landedWith(upper, lower) ==
  LET content == join(orig)
      u == r0[upper][1]
      l == r0[lower][1]
  IN  split(SubSeq(content, 1, offsetAt(orig, u.start))
              \o input[upper]
              \o SubSeq(content, offsetAt(orig, u.end) + 1, offsetAt(orig, l.start))
              \o input[lower]
              \o SubSeq(content, offsetAt(orig, l.end) + 1, Len(content)))

\* the two edits are insertions at one and the same position
samePoint ==
  /\ r0[EditA][1] = r0[EditB][1]
  /\ r0[EditA][1].start = r0[EditA][1].end

\* the edit that comes first in the document: the one that ends at or
\* before the other's start, an insertion before a range starting with it
upperEdit ==
  IF \/ isBefore(r0[EditA][1].start, r0[EditB][1].start)
     \/ /\ r0[EditA][1].start = r0[EditB][1].start
        /\ r0[EditA][1].start = r0[EditA][1].end
  THEN EditA ELSE EditB

\* C34 as stated: for two pending edits on the same document with
\* disjoint ranges, applying A then B gives the same final document as
\* applying B then A.
C34_OrdersAgree ==
  bothWritten =>
    /\ inOrder(EditA, EditB) = inOrder(EditB, EditA)
    /\ doc = inOrder(EditA, EditB)

\* C34 amended: for two pending edits on the same document with disjoint
\* ranges that are not both the same empty range, applying A then B gives
\* the same final document as applying B then A: the original text with
\* each range replaced by its edit's text.
C34_OrdersAgreeApart ==
  (bothWritten /\ ~samePoint) =>
    /\ inOrder(EditA, EditB) = inOrder(EditB, EditA)
    /\ doc = inOrder(EditA, EditB)
    /\ doc = landedWith(upperEdit, IF upperEdit = EditA THEN EditB ELSE EditA)

\* B, on the line of A's end and after it, was applied after A's text with
\* a line break had moved it to another line and column
C34_Witness ==
  /\ bothWritten
  /\ ~samePoint
  /\ r0[EditA][1].start # r0[EditA][1].end
  /\ r0[EditB][1].start # r0[EditB][1].end
  /\ r0[EditB][1].start.line = r0[EditA][1].end.line
  /\ wrote[EditB][1].range.start.line # r0[EditB][1].start.line
  /\ wrote[EditB][1].range.start.character # r0[EditB][1].start.character
  /\ doc = inOrder(EditB, EditA)

\* C36: whenever getEnclosingBlock returns a block, the returned range
\* contains the cursor position: when the chosen '{' is before the cursor
\* (backward scan) the cursor is after it and not after its matching '}',
\* and when it is not (forward fallback) the cursor is on the opening
\* brace's line.
C36_RangeContainsCursor ==
  (located /\ returned # <<>>) =>
    LET range == returned[1].range
        position == input[2]
        b == blockStartOf(theText, theOffset)
    IN  /\ isBeforeOrEqual(range.start, position)
        /\ isBeforeOrEqual(position, range.end)
        /\ \E e \in offsetsOf(theText) :
             /\ isMatch(theText, b, e)
             /\ IF b < theOffset
                  THEN theOffset <= e
                  ELSE lineOf(theText, b) = position.line

\* the cursor is directly before the closing brace of a block that spans
\* several lines and holds another pair of braces before the cursor
C36_Witness ==
  /\ located
  /\ returned # <<>>
  /\ blockStartOf(theText, theOffset) < theOffset
  /\ isMatch(theText, blockStartOf(theText, theOffset), theOffset)
  /\ hasChar(SubSeq(theText, blockStartOf(theText, theOffset) + 2, theOffset), "}")
  /\ input[2].line > returned[1].range.start.line

(***************************************************************************)
(* Spec: the extension on the extension host's event loop.  Each action is *)
(* one turn of the loop: a callback together with the promise              *)
(* continuations it makes runnable.  The continuation of                   *)
(* `await tracker.applyResult(...)` is the one kept as a turn of its own   *)
(* ("ApplyReturned"); nothing else runs until it has run.                  *)
(***************************************************************************)
\* what an invocation reads from the active editor: the document and the
\* selection or context range, or the cursor when nothing is selected
Cursor == Range(Position(0, 0), Position(0, 0))

Captures ==
  { [uri |-> DocA, range |-> MultiLine], [uri |-> DocB, range |-> SingleLine],
    [uri |-> DocA, range |-> Cursor] }

\* makeComment(languageId, `Kusanagi ${commentLabel}`)
Comment == <<"/", "/">>

ResultText == <<"r", NL, "s">>

\* the change events the host fires while requests are in flight
HostEvents == { ChangeEvent(DocA, <<InsertLineAtTop, DeleteCharBefore>>) }

Terminal == {"Applied", "ApplyFailed", "EmptyResult", "BackendError", "Cancelled"}

Init ==
  /\ RebaseIdle
  /\ DocIdle
  /\ TrackerFresh
  /\ HistIdle
  /\ CoordStart
  /\ currentProvider \in Providers

\* no promise continuation is waiting to run
NoMicrotask == \A s \in Slots : pc[s] # "ApplyReturned"

parked == <<rbVars, docVars, call, wrote, r0, folded, tracks, histVars>>

\* finally { abortControllers.delete(requestId); activeRequests--; ... }
Finally(s) ==
  /\ abortControllers' = abortControllers \ {rid[s][1]}
  /\ activeRequests' = activeRequests - 1

\* the command is invoked: the editor, selection and context are read and
\* the quick pick or input box is shown
Invoke(s, c) ==
  /\ NoMicrotask
  /\ ~deactivated
  /\ pc[s] = "Idle"
  /\ pc' = [pc EXCEPT ![s] = "Prompting"]
  /\ ctx' = [ctx EXCEPT ![s] = <<c>>]
  /\ UNCHANGED <<pending, nEvents, requestCounter, activeRequests, abortControllers,
                 currentProvider, rid, aborted, proc, run, listening, issued,
                 applied, cancelWhile, deactivated>>
  /\ UNCHANGED parked

\* the quick pick is hidden or the input box left empty: the invocation
\* returns and leaves nothing behind
Dismiss(s) ==
  /\ NoMicrotask
  /\ pc[s] = "Prompting"
  /\ pc' = [pc EXCEPT ![s] = "Idle"]
  /\ ctx' = [ctx EXCEPT ![s] = <<>>]
  /\ UNCHANGED <<pending, nEvents, requestCounter, activeRequests, abortControllers,
                 currentProvider, rid, aborted, proc, run, listening, issued,
                 applied, cancelWhile, deactivated>>
  /\ UNCHANGED parked

\* mutant of Start: the backend is invoked without tracker.track
StartUntracked(s, id, pend, range) ==
  /\ pending' = pend
  /\ abortControllers' = abortControllers \cup {id}
  /\ activeRequests' = activeRequests + 1
  /\ proc' = [proc EXCEPT ![s] = "running"]
  /\ run' = [run EXCEPT ![s] = "pending"]
  /\ listening' = [listening EXCEPT ![s] = TRUE]
  /\ pc' = [pc EXCEPT ![s] = "AwaitingBackend"]

\* tracker.track(...) up to the call of currentProvider.run: the range is
\* tracked, the AbortController registered and the process spawned
Start(s, id, pend, range) ==
  /\ pending' = track(pend, id, ctx[s][1].uri, range)
  /\ abortControllers' = abortControllers \cup {id}
  /\ activeRequests' = activeRequests + 1
  /\ proc' = [proc EXCEPT ![s] = "running"]
  /\ run' = [run EXCEPT ![s] = "pending"]
  /\ listening' = [listening EXCEPT ![s] = TRUE]
  /\ pc' = [pc EXCEPT ![s] = "AwaitingBackend"]

\* a prompt is entered (the slots are numbered in the order the prompts
\* are entered): the request gets its id; with the cursor on an empty line
\* it inserts its placeholder comment and waits for that edit, otherwise it
\* starts at once
Accept(s, isEmptyLine) ==
  /\ NoMicrotask
  /\ pc[s] = "Prompting"
  /\ s > 1 => rid[s - 1] # <<>>
  /\ isEmptyLine => ctx[s][1].range = Cursor
  /\ requestCounter' = requestCounter + 1
  /\ rid' = [rid EXCEPT ![s] = <<reqId(requestCounter + 1)>>]
  /\ IF isEmptyLine
     THEN /\ pc' = [pc EXCEPT ![s] = "Placeholder"]
          /\ UNCHANGED <<pending, abortControllers, activeRequests, proc, run,
                         listening>>
     ELSE Start(s, reqId(requestCounter + 1), pending, ctx[s][1].range)
  /\ UNCHANGED <<nEvents, currentProvider, ctx, aborted, issued, applied,
                 cancelWhile, deactivated>>
  /\ UNCHANGED parked

\* workspace.applyEdit of the placeholder settles: with true the comment is
\* in the document and its change event has reached the tracker; the
\* request tracks the whole line and starts.  A rejected applyEdit leaves
\* handlePromptCommand before track.
PlaceholderSettles(s, outcome) ==
  /\ NoMicrotask
  /\ pc[s] = "Placeholder"
  /\ LET at == ctx[s][1].range.start
         e == ChangeEvent(ctx[s][1].uri, <<ContentChange(Range(at, at), Comment)>>)
     IN  CASE outcome = "threw" ->
                /\ pc' = [pc EXCEPT ![s] = "Failed"]
                /\ UNCHANGED <<pending, abortControllers, activeRequests, proc, run,
                               listening>>
           [] outcome = "true" ->
                Start(s, rid[s][1], adjustForChanges(pending, e),
                      Range(Position(at.line, 0), Position(at.line, Len(Comment))))
           [] OTHER ->
                Start(s, rid[s][1], pending,
                      Range(Position(at.line, 0), Position(at.line, 0)))
  /\ UNCHANGED <<nEvents, requestCounter, currentProvider, rid, ctx, aborted, issued,
                 applied, cancelWhile, deactivated>>
  /\ UNCHANGED parked

\* handlePromptCommand resumes with the settled promise of run: the
\* branches after the await, and applyResult up to its own await
Resume(s, result, ws) ==
  LET id == rid[s][1]
  IN  IF afterRun(result) # "apply"
      THEN /\ pending' = afterRunPending(pending, id, result)
           /\ pc' = [pc EXCEPT ![s] = afterRun(result)]
           /\ Finally(s)
           /\ UNCHANGED <<issued, applied>>
      ELSE /\ UNCHANGED <<abortControllers, activeRequests>>
           /\ IF id \notin DOMAIN pending
              THEN /\ applied' = [applied EXCEPT ![s] = "notfound"]
                   /\ pc' = [pc EXCEPT ![s] = "ApplyReturned"]
                   /\ UNCHANGED <<pending, issued>>
              ELSE LET found == applyLookup(pending[id], ws.docs, ws.editors)
                   IN  IF found = "edit"
                       THEN /\ issued' = [issued EXCEPT ![s] =
                                            <<[range |-> pending[id].range,
                                               text |-> ResultText]>>]
                            /\ pc' = [pc EXCEPT ![s] = "Applying"]
                            /\ UNCHANGED <<pending, applied>>
                       ELSE /\ pending' = remove(pending, id)
                            /\ applied' = [applied EXCEPT ![s] = found]
                            /\ pc' = [pc EXCEPT ![s] = "ApplyReturned"]
                            /\ UNCHANGED issued

\* the child process ends; its 'close' event is still to come
ProcessExits(s, exit) ==
  /\ NoMicrotask
  /\ proc[s] = "running"
  /\ proc' = [proc EXCEPT ![s] = exit]
  /\ UNCHANGED <<pending, nEvents, requestCounter, activeRequests, abortControllers,
                 currentProvider, pc, rid, ctx, aborted, run, listening, issued,
                 applied, cancelWhile, deactivated>>
  /\ UNCHANGED parked

\* the 'error' event of the child process: the handler rejects the promise
ProcessError(s, ws) ==
  /\ NoMicrotask
  /\ proc[s] = "running"
  /\ proc' = [proc EXCEPT ![s] = "failed"]
  /\ listening' = [listening EXCEPT ![s] = FALSE]
  /\ run' = [run EXCEPT ![s] = settle(@, "rejected")]
  /\ IF run[s] = "pending"
     THEN Resume(s, "rejected", ws)
     ELSE UNCHANGED <<pending, pc, abortControllers, activeRequests, issued, applied>>
  /\ UNCHANGED <<nEvents, requestCounter, currentProvider, rid, ctx, aborted,
                 cancelWhile, deactivated>>
  /\ UNCHANGED parked

\* the 'close' event of the child process
ProcessClose(s, ws) ==
  /\ NoMicrotask
  /\ proc[s] \in {"ok", "blank", "failed", "killed"}
  /\ proc' = [proc EXCEPT ![s] = "closed"]
  /\ listening' = [listening EXCEPT ![s] = FALSE]
  /\ LET outcome == closeHandler(currentProvider, proc[s], aborted[s])
     IN  /\ run' = [run EXCEPT ![s] = settle(@, outcome)]
         /\ IF run[s] = "pending" /\ outcome # "none"
            THEN Resume(s, outcome, ws)
            ELSE UNCHANGED <<pending, pc, abortControllers, activeRequests, issued,
                             applied>>
  /\ UNCHANGED <<nEvents, requestCounter, currentProvider, rid, ctx, aborted,
                 cancelWhile, deactivated>>
  /\ UNCHANGED parked

\* the ids in ids removed one by one through the cancelled branch
RECURSIVE cancelAll(_, _)
cancelAll(pend, ids) ==
  IF ids = {} THEN pend
  ELSE LET id == CHOOSE i \in ids : TRUE
       IN  cancelAll(cancelledBranch(pend, id), ids \ {id})

\* deactivate(): every registered controller is aborted, the map cleared
\* and the counter reset; then the requests whose onAbort resolved their
\* run resume through the cancelled branch and their finally blocks
Deactivate ==
  /\ NoMicrotask
  /\ ~deactivated
  /\ deactivated' = TRUE
  /\ LET hit == { s \in Slots : rid[s] # <<>> /\ rid[s][1] \in abortControllers }
         heard == { s \in hit : listening[s] }
         resumed == { s \in heard : run[s] = "pending" /\ onAbort(run[s]) = "cancelled" }
     IN  /\ aborted' = [s \in Slots |-> aborted[s] \/ s \in hit]
         /\ listening' = [s \in Slots |-> listening[s] /\ s \notin heard]
         /\ proc' = [s \in Slots |->
                       IF s \in heard /\ proc[s] = "running" THEN "killed" ELSE proc[s]]
         /\ run' = [s \in Slots |-> IF s \in heard THEN onAbort(run[s]) ELSE run[s]]
         /\ cancelWhile' =
              [s \in Slots |->
                 IF s \in hit /\ pc[s] = "AwaitingBackend" /\ run[s] = "pending"
                 THEN proc[s] ELSE cancelWhile[s]]
         /\ pc' = [s \in Slots |-> IF s \in resumed THEN "Cancelled" ELSE pc[s]]
         /\ pending' = cancelAll(pending, { rid[s][1] : s \in resumed })
         /\ abortControllers' = {}
         /\ activeRequests' = 0 - Cardinality(resumed)
  /\ UNCHANGED <<nEvents, requestCounter, currentProvider, rid, ctx, issued, applied>>
  /\ UNCHANGED parked

\* editor.edit settles; with true the document has changed and its change
\* event has reached the tracker; applyResult resumes and returns or throws
EditSettles(s, outcome) ==
  /\ NoMicrotask
  /\ pc[s] = "Applying"
  /\ LET id == rid[s][1]
         e == ChangeEvent(ctx[s][1].uri,
                          <<ContentChange(issued[s][1].range, issued[s][1].text)>>)
     IN  pending' = applySettled(IF outcome = "true"
                                 THEN adjustForChanges(pending, e) ELSE pending,
                                 id, outcome)
  /\ applied' = [applied EXCEPT ![s] = outcome]
  /\ pc' = [pc EXCEPT ![s] = "ApplyReturned"]
  /\ UNCHANGED <<nEvents, requestCounter, activeRequests, abortControllers,
                 currentProvider, rid, ctx, aborted, proc, run, listening, issued,
                 cancelWhile, deactivated>>
  /\ UNCHANGED parked

\* handlePromptCommand resumes after `await tracker.applyResult(...)`
AfterApply(s) ==
  /\ pc[s] = "ApplyReturned"
  /\ IF applied[s] = "true"
     THEN /\ pc' = [pc EXCEPT ![s] = "Applied"]
          /\ Finally(s)
          /\ UNCHANGED pending
     ELSE IF applied[s] = "threw"
     THEN /\ pc' = [pc EXCEPT ![s] = "BackendError"]
          /\ pending' = catchBlock(pending, rid[s][1])
          /\ Finally(s)
     ELSE /\ pc' = [pc EXCEPT ![s] = "Fallback"]
          /\ UNCHANGED <<pending, abortControllers, activeRequests>>
  /\ UNCHANGED <<nEvents, requestCounter, currentProvider, rid, ctx, aborted, proc,
                 run, listening, issued, applied, cancelWhile, deactivated>>
  /\ UNCHANGED parked

\* the fallback document is opened and shown, or that fails
FallbackSettles(s, shown) ==
  /\ NoMicrotask
  /\ pc[s] = "Fallback"
  /\ IF shown
     THEN /\ pc' = [pc EXCEPT ![s] = "ApplyFailed"]
          /\ UNCHANGED pending
     ELSE /\ pc' = [pc EXCEPT ![s] = "BackendError"]
          /\ pending' = catchBlock(pending, rid[s][1])
  /\ Finally(s)
  /\ UNCHANGED <<nEvents, requestCounter, currentProvider, rid, ctx, aborted, proc,
                 run, listening, issued, applied, cancelWhile, deactivated>>
  /\ UNCHANGED parked

\* the host fires a change event of some document
Mutation(e) ==
  /\ NoMicrotask
  /\ nEvents < MaxHostEvents
  /\ nEvents' = nEvents + 1
  /\ pending' = adjustForChanges(pending, e)
  /\ UNCHANGED coordVars
  /\ UNCHANGED parked

Next ==
  \/ \E s \in Slots, c \in Captures : Invoke(s, c)
  \/ \E s \in Slots : Dismiss(s)
  \/ \E s \in Slots, isEmptyLine \in BOOLEAN : Accept(s, isEmptyLine)
  \/ \E s \in Slots, outcome \in {"true", "false", "threw"} : PlaceholderSettles(s, outcome)
  \/ \E s \in Slots, exit \in {"ok", "blank", "failed"} : ProcessExits(s, exit)
  \/ \E s \in Slots, ws \in Workspaces : ProcessError(s, ws)
  \/ \E s \in Slots, ws \in Workspaces : ProcessClose(s, ws)
  \/ Deactivate
  \/ \E s \in Slots, outcome \in {"true", "false", "threw"} : EditSettles(s, outcome)
  \/ \E s \in Slots : AfterApply(s)
  \/ \E s \in Slots, shown \in BOOLEAN : FallbackSettles(s, shown)
  \/ \E e \in HostEvents : Mutation(e)

Spec == Init /\ [][Next]_vars

(***************************************************************************)
(* Claims about the request lifecycle, under Spec.                         *)
(***************************************************************************)
\* C2: whenever a request has reached a terminal state (applied, write not
\* applied, empty result, backend error, cancelled), also when its write
\* failed or threw, its id is not in the tracker's pending map.
C2_TerminalImpliesRemoved ==
  \A s \in Slots : pc[s] \in Terminal => rid[s][1] \notin DOMAIN pending

\* a request whose write threw has ended
C2_Witness ==
  \E s \in Slots : pc[s] = "BackendError" /\ applied[s] = "threw"

\* C4: once the cancellation signal of a request is asserted while its
\* backend call is outstanding, the request is Cancelled and no document
\* write is ever issued for it.
C4_CancelledNeverApplies ==
  \A s \in Slots :
    cancelWhile[s] # "" => (pc[s] = "Cancelled" /\ issued[s] = <<>>)

\* a request cancelled while its process was running, the process closed since
C4_Witness ==
  \E s \in Slots : cancelWhile[s] = "running" /\ proc[s] = "closed"

\* C5: if cancellation is asserted after the backend has completed
\* successfully (the process has ended with code 0 and output) and before
\* the write is issued, the write is skipped and the entry is removed.
C5_CancelAfterCompletionSkipsWrite ==
  \A s \in Slots :
    cancelWhile[s] = "ok" =>
      (issued[s] = <<>> /\ rid[s][1] \notin DOMAIN pending)

\* cancelled after its process had ended with code 0 and output; the
\* 'close' event has come since
C5_Witness ==
  \E s \in Slots :
    cancelWhile[s] = "ok" /\ proc[s] = "closed" /\ pc[s] = "Cancelled"

\* the ids handed out so far
issuedIds == { rid[s][1] : s \in { t \in Slots : rid[t] # <<>> } }

\* C15: across every interleaving of concurrent invocations, each request
\* gets an id different from every id issued before, so no two pending
\* edits share an id and track never overwrites an entry that is still
\* active.
C15_RequestIdsNeverReused ==
  [][ \A s \in Slots :
        /\ (rid[s] = <<>> /\ rid'[s] # <<>>) =>
             (rid'[s][1] \notin issuedIds /\ rid'[s][1] \notin DOMAIN pending)
        /\ (pc[s] # "AwaitingBackend" /\ pc'[s] = "AwaitingBackend") =>
             (rid'[s][1] \notin DOMAIN pending /\ rid'[s][1] \in DOMAIN pending') ]_vars

\* a request that got its id first is still waiting for its placeholder
\* edit while a request that got its id later is tracked already
C15_Witness ==
  \E s \in Slots, t \in Slots :
    /\ pc[s] = "Placeholder"
    /\ pc[t] = "AwaitingBackend"
    /\ rid[t][1] \in DOMAIN pending
    /\ rid[s] = <<reqId(1)>>
    /\ rid[t] = <<reqId(2)>>

\* how far a request has come: invoked with its context captured (1, 2),
\* tracked and awaiting the backend (3), handling the backend's text
\* (4 to 6), ended (7)
stageOf(at) ==
  CASE at = "Idle" -> 0
    [] at = "Prompting" -> 1
    [] at = "Placeholder" -> 2
    [] at = "AwaitingBackend" -> 3
    [] at = "Applying" -> 4
    [] at = "ApplyReturned" -> 5
    [] at = "Fallback" -> 6
    [] OTHER -> 7

\* the four ways a request that awaited the backend ends; the try block is
\* left past applyResult ("Applied": the text was handed to applyResult and
\* nothing threw), through the empty-result return, through the catch or
\* through the cancelled return
endOf(at) ==
  CASE at \in {"Applied", "ApplyFailed"} -> "Applied"
    [] at = "EmptyResult" -> "EmptyResult"
    [] at = "BackendError" -> "BackendError"
    [] at = "Cancelled" -> "Cancelled"
    [] OTHER -> ""

Progress(s) ==
  /\ WF_vars(\E exit \in {"ok", "blank", "failed"} : ProcessExits(s, exit))
  /\ WF_vars(\E ws \in Workspaces : ProcessClose(s, ws))
  /\ WF_vars(\E outcome \in {"true", "false", "threw"} : EditSettles(s, outcome))
  /\ WF_vars(AfterApply(s))
  /\ WF_vars(\E shown \in BOOLEAN : FallbackSettles(s, shown))

LiveSpec == Init /\ [][Next]_vars /\ \A s \in Slots : Progress(s)

\* the request of slot s has an entry in the tracker
isTracked(s) == rid[s] # <<>> /\ rid[s][1] \in DOMAIN pending

\* C33: no pending edit leaks: when the backend process closes, errors or
\* is aborted and the document write settles, every tracked request id is
\* eventually removed from the tracker, under every interleaving with
\* mutation events and other requests.
C33_NoLeak ==
  \A s \in Slots : isTracked(s) ~> ~isTracked(s)

\* a request has ended with an empty result and another with a backend
\* error after a mutation event, and neither is in the tracker
C33_Witness ==
  \E s \in Slots, t \in Slots :
    /\ pc[s] = "EmptyResult"
    /\ pc[t] = "BackendError"
    /\ nEvents > 0
    /\ ~isTracked(s)
    /\ ~isTracked(t)

\* the request of slot s has passed activeRequests++ and has not yet run
\* its finally block
inFlight(s) == pc[s] \in {"AwaitingBackend", "Applying", "ApplyReturned", "Fallback"}

\* C35: the activeRequests counter is never negative and always equals the
\* number of requests that have been tracked and have not yet finished,
\* under any interleaving of invocations, backend completions and
\* deactivate().
C35_CounterCountsInFlight ==
  /\ activeRequests >= 0
  /\ activeRequests = Cardinality({ s \in Slots : inFlight(s) })

\* C35 without deactivate(): until deactivate() runs the counter is the
\* number of requests in flight
C35_CounterBeforeDeactivate ==
  ~deactivated => C35_CounterCountsInFlight

\* C37: after deactivate() has run, no request issues a document write,
\* and no request outstanding at that moment reaches Applied.
C37_NoWriteAfterDeactivate ==
  [][deactivated =>
       \A s \in Slots :
         /\ issued'[s] = issued[s]
         /\ pc[s] # "Applied" => pc'[s] # "Applied"]_vars

\* C37 for the requests deactivate() can reach: a request that is awaiting
\* its backend when deactivate() runs ends Cancelled without a write
C37_AwaitingEndsCancelled ==
  [][(~deactivated /\ deactivated') =>
       \A s \in Slots :
         (pc[s] = "AwaitingBackend" /\ run[s] = "pending")
           => pc'[s] = "Cancelled" /\ issued'[s] = <<>>]_vars

\* C40: a backend result whose text is empty or whitespace-only never
\* causes a document write: the request ends as EmptyResult with its entry
\* removed from the tracker, and no edit is issued for it.
C40_BlankNeverWrites ==
  \A s \in Slots :
    run[s] = "blank" =>
      /\ pc[s] = "EmptyResult"
      /\ issued[s] = <<>>
      /\ applied[s] = "none"
      /\ rid[s][1] \notin DOMAIN pending

\* one request ended on an empty result while another request, of the same
\* provider, wrote its text
C40_Witness ==
  \E s \in Slots, t \in Slots :
    /\ run[s] = "blank"
    /\ pc[s] = "EmptyResult"
    /\ proc[s] = "closed"
    /\ run[t] = "text"
    /\ issued[t] # <<>>
    /\ applied[t] = "true"

====
